---------------------------- MODULE Spec2Model ----------------------------
(***************************************************************************)
(* Model of the interactive worktree selector of claude-vibe:              *)
(*   src/src/tui.rs                       selection models, render loop,   *)
(*                                        confirmation prompt, raw mode    *)
(*   src/src/commands/cleanup.rs          interactive cleanup (multi)      *)
(*   src/src/commands/continue_session.rs continue (single)                *)
(*                                                                         *)
(* Vec<T> is a function on 0..len-1 (the source's indices are kept),       *)
(* Option<T> is a sequence of length 0 (None) or 1 (Some).                 *)
(***************************************************************************)
EXTENDS Integers, Sequences, FiniteSets, TLC

(***************************************************************************)
(* Bounds of the model                                                     *)
(***************************************************************************)
MaxItems == 2

FrameWrap == 2

(***************************************************************************)
(* Option and Vec helpers                                                  *)
(***************************************************************************)
None == << >>

Some(x) == << x >>

is_none(o) == o = None

unwrap(o) == o[1]

VecLen(v) == Cardinality(DOMAIN v)

EmptyVec == [i \in {} |-> FALSE]

saturating_sub(x, y) == IF x >= y THEN x - y ELSE 0

Min(x, y) == IF x <= y THEN x ELSE y

(***************************************************************************)
(* WorktreeStatus (git.rs of the selector's version is not in src/; the    *)
(* fields and the derived predicates follow spec section 3)                *)
(***************************************************************************)
WorktreeStatus(orph, uncom, unpushed, modified, untracked, added, deleted, ahead) ==
    [is_orphaned |-> orph, has_uncommitted |-> uncom, has_unpushed |-> unpushed,
     modified_files |-> modified, untracked_files |-> untracked,
     lines_added |-> added, lines_deleted |-> deleted, commits_ahead |-> ahead]

\* WorktreeStatus::default(): what unwrap_or_default() yields when the probe fails
DefaultStatus == WorktreeStatus(FALSE, FALSE, FALSE, 0, 0, 0, 0, 0)

DirtyStatus == WorktreeStatus(FALSE, TRUE, FALSE, 1, 0, 1, 0, 0)

UntrackedStatus == WorktreeStatus(FALSE, TRUE, FALSE, 0, 1, 0, 0, 0)

UnpushedStatus == WorktreeStatus(FALSE, FALSE, TRUE, 0, 0, 0, 0, 1)

DirtyUnpushedStatus == WorktreeStatus(FALSE, TRUE, TRUE, 1, 0, 0, 1, 1)

OrphanedStatus == WorktreeStatus(TRUE, FALSE, FALSE, 0, 0, 0, 0, 0)

OrphanedDirtyStatus == WorktreeStatus(TRUE, TRUE, FALSE, 1, 0, 1, 0, 0)

\* the snapshots a status probe may return
StatusSet == {DefaultStatus, DirtyStatus, UnpushedStatus, OrphanedDirtyStatus}

\* the snapshots put into a Status update when the model is driven directly
ModelStatusSet == {DefaultStatus, DirtyStatus, OrphanedDirtyStatus}

has_local_changes(s) ==
    \/ s.modified_files > 0
    \/ s.untracked_files > 0
    \/ s.lines_added > 0
    \/ s.lines_deleted > 0

is_safe_to_delete(s) == ~s.has_uncommitted /\ ~s.is_orphaned

(***************************************************************************)
(* SummaryState, WorktreeItem, WorktreeUpdate                              *)
(***************************************************************************)
SummaryNone == [tag |-> "None"]

Queued == [tag |-> "Queued"]

Summarizing == [tag |-> "Summarizing"]

Done(text) == [tag |-> "Done", text |-> text]

Texts == {"t1", "t2"}

WorktreeItem(branch) ==
    [branch |-> branch, status |-> None, summary_state |-> SummaryNone]

StatusUpdate(index, status) ==
    [type |-> "Status", index |-> index, status |-> status]

SummaryStartedUpdate(index) == [type |-> "SummaryStarted", index |-> index]

SummaryUpdate(index, summary) ==
    [type |-> "Summary", index |-> index, summary |-> summary]

\* matches!(state, Queued | Summarizing)
InProgress(state) == state = Queued \/ state = Summarizing

\* items.iter().filter(|i| i.status.is_none()).count()
CountStatusAbsent(items) ==
    Cardinality({i \in DOMAIN items : is_none(items[i].status)})

\* items.iter().filter(|i| matches!(i.summary_state, Queued | Summarizing)).count()
CountInProgress(items) ==
    Cardinality({i \in DOMAIN items : InProgress(items[i].summary_state)})

(***************************************************************************)
(* SingleSelectApp: application state of the single-selection session *)
(***************************************************************************)
SingleSelectApp_new(items) ==
    [items |-> items,
     list_state |-> IF DOMAIN items # {} THEN Some(0) ELSE None,
     pending_status |-> CountStatusAbsent(items),
     pending_summaries |-> CountInProgress(items),
     frame |-> 0]

SingleSelectApp_tick(a) == [a EXCEPT !.frame = (@ + 1) % FrameWrap]

\* mutant: the counter is lowered by every Status update
Mut_update_status_AlwaysDecrement(a, index, status) ==
    IF index \in DOMAIN a.items
    THEN LET item == a.items[index]
             queue == /\ status.has_uncommitted /\ ~status.is_orphaned
                      /\ item.summary_state = SummaryNone
         IN [a EXCEPT
               !.items[index] =
                   [item EXCEPT !.summary_state = IF queue THEN Queued ELSE @,
                                !.status = Some(status)],
               !.pending_summaries = IF queue THEN @ + 1 ELSE @,
               !.pending_status = saturating_sub(@, 1)]
    ELSE a

SingleSelectApp_update_status(a, index, status) ==
    IF index \in DOMAIN a.items
    THEN LET item == a.items[index]
             queue == /\ status.has_uncommitted /\ ~status.is_orphaned
                      /\ item.summary_state = SummaryNone
         IN [a EXCEPT
               !.items[index] =
                   [item EXCEPT !.summary_state = IF queue THEN Queued ELSE @,
                                !.status = Some(status)],
               !.pending_summaries = IF queue THEN @ + 1 ELSE @,
               !.pending_status =
                   IF is_none(item.status) THEN saturating_sub(@, 1) ELSE @]
    ELSE a

\* mutant: the start of the summary already counts as its end
Mut_update_summary_started_Decrement(a, index) ==
    IF index \in DOMAIN a.items
    THEN [a EXCEPT !.pending_summaries = saturating_sub(@, 1),
                   !.items[index].summary_state = Summarizing]
    ELSE a

SingleSelectApp_update_summary_started(a, index) ==
    IF index \in DOMAIN a.items
    THEN [a EXCEPT !.items[index].summary_state = Summarizing]
    ELSE a

SingleSelectApp_update_summary(a, index, summary) ==
    IF index \in DOMAIN a.items
    THEN [a EXCEPT
            !.pending_summaries =
                IF InProgress(a.items[index].summary_state)
                THEN saturating_sub(@, 1) ELSE @,
            !.items[index].summary_state = Done(summary)]
    ELSE a

SingleSelectApp_move_up(a) ==
    IF DOMAIN a.items = {}
    THEN a
    ELSE [a EXCEPT !.list_state =
            Some(IF is_none(@) THEN 0 ELSE saturating_sub(unwrap(@), 1))]

\* mutant: the cursor is not clamped to the last row
Mut_move_down_NoClamp(a) ==
    IF DOMAIN a.items = {}
    THEN a
    ELSE [a EXCEPT !.list_state =
            Some(IF is_none(@) THEN 0 ELSE unwrap(@) + 1)]

SingleSelectApp_move_down(a) ==
    IF DOMAIN a.items = {}
    THEN a
    ELSE LET max_idx == saturating_sub(VecLen(a.items), 1)
         IN [a EXCEPT !.list_state =
               Some(IF is_none(@) THEN 0 ELSE Min(unwrap(@) + 1, max_idx))]

SingleSelectApp_selected(a) == a.list_state

(***************************************************************************)
(* MultiSelectApp: application state of the multi-selection session *)
(***************************************************************************)
MultiSelectApp_new(items) ==
    [items |-> items,
     list_state |-> IF DOMAIN items # {} THEN Some(0) ELSE None,
     selected |-> [i \in DOMAIN items |-> FALSE],
     pending_status |-> CountStatusAbsent(items),
     pending_summaries |-> CountInProgress(items),
     frame |-> 0]

MultiSelectApp_tick(a) == [a EXCEPT !.frame = (@ + 1) % FrameWrap]

\* mutant: the summary is queued whenever the status asks for one
Mut_update_status_Requeue(a, index, status) ==
    IF index \in DOMAIN a.items
    THEN LET item == a.items[index]
             queue == status.has_uncommitted /\ ~status.is_orphaned
         IN [a EXCEPT
               !.items[index] =
                   [item EXCEPT !.summary_state = IF queue THEN Queued ELSE @,
                                !.status = Some(status)],
               !.pending_summaries = IF queue THEN @ + 1 ELSE @,
               !.pending_status =
                   IF is_none(item.status) THEN saturating_sub(@, 1) ELSE @]
    ELSE a

MultiSelectApp_update_status(a, index, status) ==
    IF index \in DOMAIN a.items
    THEN LET item == a.items[index]
             queue == /\ status.has_uncommitted /\ ~status.is_orphaned
                      /\ item.summary_state = SummaryNone
         IN [a EXCEPT
               !.items[index] =
                   [item EXCEPT !.summary_state = IF queue THEN Queued ELSE @,
                                !.status = Some(status)],
               !.pending_summaries = IF queue THEN @ + 1 ELSE @,
               !.pending_status =
                   IF is_none(item.status) THEN saturating_sub(@, 1) ELSE @]
    ELSE a

MultiSelectApp_update_summary_started(a, index) ==
    IF index \in DOMAIN a.items
    THEN [a EXCEPT !.items[index].summary_state = Summarizing]
    ELSE a

\* mutant: an index past the end is taken for the last row
Mut_update_summary_ClampIndex(a, index, summary) ==
    IF DOMAIN a.items # {}
    THEN LET idx == Min(index, VecLen(a.items) - 1)
         IN [a EXCEPT
               !.pending_summaries =
                   IF InProgress(a.items[idx].summary_state)
                   THEN saturating_sub(@, 1) ELSE @,
               !.items[idx].summary_state = Done(summary)]
    ELSE a

MultiSelectApp_update_summary(a, index, summary) ==
    IF index \in DOMAIN a.items
    THEN [a EXCEPT
            !.pending_summaries =
                IF InProgress(a.items[index].summary_state)
                THEN saturating_sub(@, 1) ELSE @,
            !.items[index].summary_state = Done(summary)]
    ELSE a

\* mutant: moving up from the first row wraps to the last
Mut_move_up_Wrap(a) ==
    IF DOMAIN a.items = {}
    THEN a
    ELSE [a EXCEPT !.list_state =
            Some(IF is_none(@) THEN 0
                 ELSE IF unwrap(@) = 0 THEN VecLen(a.items) - 1
                 ELSE unwrap(@) - 1)]

MultiSelectApp_move_up(a) ==
    IF DOMAIN a.items = {}
    THEN a
    ELSE [a EXCEPT !.list_state =
            Some(IF is_none(@) THEN 0 ELSE saturating_sub(unwrap(@), 1))]

MultiSelectApp_move_down(a) ==
    IF DOMAIN a.items = {}
    THEN a
    ELSE LET max_idx == saturating_sub(VecLen(a.items), 1)
         IN [a EXCEPT !.list_state =
               Some(IF is_none(@) THEN 0 ELSE Min(unwrap(@) + 1, max_idx))]

\* mutant: the flag at the cursor is set, not flipped
Mut_toggle_current_SetsTrue(a) ==
    IF is_none(a.list_state)
    THEN a
    ELSE [a EXCEPT !.selected[unwrap(a.list_state)] = TRUE]

\* self.selected[idx] panics when idx is out of bounds
MultiSelectApp_toggle_current(a) ==
    IF is_none(a.list_state)
    THEN a
    ELSE [a EXCEPT !.selected[unwrap(a.list_state)] = ~@]

\* mutant: select_all also puts the cursor on the first row
Mut_select_all_ResetsCursor(a) ==
    [a EXCEPT !.selected = [i \in DOMAIN @ |-> TRUE],
              !.list_state = IF DOMAIN a.items # {} THEN Some(0) ELSE None]

MultiSelectApp_select_all(a) ==
    [a EXCEPT !.selected = [i \in DOMAIN @ |-> TRUE]]

MultiSelectApp_deselect_all(a) ==
    [a EXCEPT !.selected = [i \in DOMAIN @ |-> FALSE]]

\* enumerate().filter_map(): the indices with selected[i], in index order
RECURSIVE CollectFrom(_, _)
CollectFrom(selected, i) ==
    IF i \notin DOMAIN selected
    THEN << >>
    ELSE (IF selected[i] THEN << i >> ELSE << >>) \o CollectFrom(selected, i + 1)

\* mutant: the indices are collected from the last row to the first
Mut_get_selected_indices_Descending(a) ==
    LET q == CollectFrom(a.selected, 0)
    IN [k \in 1..Len(q) |-> q[Len(q) + 1 - k]]

MultiSelectApp_get_selected_indices(a) == CollectFrom(a.selected, 0)

(***************************************************************************)
(* Terminal events (crossterm Event / KeyEvent)                            *)
(***************************************************************************)
Char(c) == << "Char", c >>

KeyCode_Up == << "Up" >>

KeyCode_Down == << "Down" >>

KeyCode_Enter == << "Enter" >>

KeyCode_Esc == << "Esc" >>

Key(code, ctrl) == [kind |-> "Key", code |-> code, ctrl |-> ctrl]

Resize == [kind |-> "Resize"]

\* what event::read() may deliver to a selection session
SelectionEvents ==
    {Resize,
     Key(KeyCode_Up, FALSE), Key(KeyCode_Down, FALSE),
     Key(KeyCode_Enter, FALSE), Key(KeyCode_Esc, FALSE),
     Key(Char("k"), FALSE), Key(Char("j"), FALSE), Key(Char(" "), FALSE),
     Key(Char("a"), FALSE), Key(Char("n"), FALSE), Key(Char("q"), FALSE),
     Key(Char("c"), TRUE), Key(Char("c"), FALSE), Key(Char("x"), FALSE)}

\* what event::read() may deliver to the confirmation prompt
ConfirmEvents ==
    {Resize,
     Key(Char("y"), FALSE), Key(Char("Y"), FALSE),
     Key(Char("n"), FALSE), Key(Char("N"), FALSE),
     Key(KeyCode_Esc, FALSE), Key(Char("q"), FALSE),
     Key(KeyCode_Enter, FALSE),
     Key(Char("c"), TRUE), Key(Char("x"), FALSE)}

(***************************************************************************)
(* The match on the key code inside the render loops.  The value is the    *)
(* application state after the arm and brk: None to stay in the loop,      *)
(* Some(r) for `break r`.                                                  *)
(***************************************************************************)
Stay(a) == [app |-> a, brk |-> None]

Break(a, r) == [app |-> a, brk |-> Some(r)]

SingleSelectMatch(a, code, ctrl) ==
    CASE code = KeyCode_Up \/ code = Char("k") -> Stay(SingleSelectApp_move_up(a))
      [] code = KeyCode_Down \/ code = Char("j") -> Stay(SingleSelectApp_move_down(a))
      [] code = KeyCode_Enter -> Break(a, SingleSelectApp_selected(a))
      [] code = KeyCode_Esc \/ code = Char("q") -> Break(a, None)
      [] code = Char("c") /\ ctrl -> Break(a, None)
      [] OTHER -> Stay(a)

\* mutant: Enter returns the selection also when it is empty
Mut_MultiSelectMatch_ConfirmEmpty(a, code, ctrl) ==
    CASE code = KeyCode_Up \/ code = Char("k") -> Stay(MultiSelectApp_move_up(a))
      [] code = KeyCode_Down \/ code = Char("j") -> Stay(MultiSelectApp_move_down(a))
      [] code = Char(" ") -> Stay(MultiSelectApp_toggle_current(a))
      [] code = Char("a") -> Stay(MultiSelectApp_select_all(a))
      [] code = Char("n") -> Stay(MultiSelectApp_deselect_all(a))
      [] code = KeyCode_Enter ->
           Break(a, Some(MultiSelectApp_get_selected_indices(a)))
      [] code = KeyCode_Esc \/ code = Char("q") -> Break(a, None)
      [] code = Char("c") /\ ctrl -> Break(a, None)
      [] OTHER -> Stay(a)

MultiSelectMatch(a, code, ctrl) ==
    CASE code = KeyCode_Up \/ code = Char("k") -> Stay(MultiSelectApp_move_up(a))
      [] code = KeyCode_Down \/ code = Char("j") -> Stay(MultiSelectApp_move_down(a))
      [] code = Char(" ") -> Stay(MultiSelectApp_toggle_current(a))
      [] code = Char("a") -> Stay(MultiSelectApp_select_all(a))
      [] code = Char("n") -> Stay(MultiSelectApp_deselect_all(a))
      [] code = KeyCode_Enter ->
           LET selected == MultiSelectApp_get_selected_indices(a)
           IN IF selected = << >> THEN Break(a, None)
                                  ELSE Break(a, Some(selected))
      [] code = KeyCode_Esc \/ code = Char("q") -> Break(a, None)
      [] code = Char("c") /\ ctrl -> Break(a, None)
      [] OTHER -> Stay(a)

\* the match on the update inside `while let Ok(update) = update_rx.try_recv()`
SingleSelectApply(a, update) ==
    CASE update.type = "Status" ->
           SingleSelectApp_update_status(a, update.index, update.status)
      [] update.type = "SummaryStarted" ->
           SingleSelectApp_update_summary_started(a, update.index)
      [] update.type = "Summary" ->
           SingleSelectApp_update_summary(a, update.index, update.summary)

MultiSelectApply(a, update) ==
    CASE update.type = "Status" ->
           MultiSelectApp_update_status(a, update.index, update.status)
      [] update.type = "SummaryStarted" ->
           MultiSelectApp_update_summary_started(a, update.index)
      [] update.type = "Summary" ->
           MultiSelectApp_update_summary(a, update.index, update.summary)

\* mutant: Enter, the default, answers yes
Mut_ConfirmMatch_EnterIsYes(code) ==
    CASE code = Char("y") \/ code = Char("Y") -> Some(TRUE)
      [] code = Char("n") \/ code = Char("N")
           \/ code = KeyCode_Esc \/ code = Char("q") -> Some(FALSE)
      [] code = KeyCode_Enter -> Some(TRUE)
      [] OTHER -> None

\* the match on the key code inside confirm(): Some(answer) for `break answer`
ConfirmMatch(code) ==
    CASE code = Char("y") \/ code = Char("Y") -> Some(TRUE)
      [] code = Char("n") \/ code = Char("N")
           \/ code = KeyCode_Esc \/ code = Char("q") -> Some(FALSE)
      [] code = KeyCode_Enter -> Some(FALSE)
      [] OTHER -> None

(***************************************************************************)
(* Rendering: build_worktree_list_item, build_list_items, build_title, and *)
(* the row printed by the status command.  A glyph/colour class is the     *)
(* pair << icon, colour >>.                                                *)
(***************************************************************************)
\* the (status_icon, status_color) of build_worktree_list_item
RowIcon(status) ==
    IF is_none(status) THEN << "ring", "DarkGray" >>
    ELSE LET s == unwrap(status)
         IN IF s.is_orphaned THEN << "cross", "Red" >>
            ELSE IF s.has_uncommitted /\ s.has_unpushed THEN << "dot", "Red" >>
            ELSE IF s.has_uncommitted THEN << "dot", "Yellow" >>
            ELSE IF s.has_unpushed THEN << "dot", "Blue" >>
            ELSE << "dot", "Green" >>

\* show_summary_line of build_worktree_list_item
ShowSummaryLine(status) ==
    IF is_none(status) THEN FALSE
    ELSE LET s == unwrap(status)
         IN IF s.is_orphaned THEN FALSE
            ELSE s.has_uncommitted /\ ~s.is_orphaned

\* the second line of a row: None when no line is pushed
SummaryLine(status, summary_state, spinner) ==
    IF ~ShowSummaryLine(status) THEN None
    ELSE CASE summary_state = SummaryNone -> None
           [] summary_state = Queued -> Some(<< spinner, "Queued" >>)
           [] summary_state = Summarizing -> Some(<< spinner, "Summarizing..." >>)
           [] OTHER -> IF summary_state.text = "" THEN None
                       ELSE Some(<< summary_state.text >>)

\* the parts of the compact status line: +added -deleted ^ahead, or Clean
StatusDetails(s) ==
    LET total_added == s.lines_added + s.untracked_files
        has_changes == total_added > 0 \/ s.lines_deleted > 0
        has_unpushed == s.commits_ahead > 0
    IN IF ~has_changes /\ ~has_unpushed
       THEN << "Clean" >>
       ELSE (IF total_added > 0 THEN << << "+", total_added >> >> ELSE << >>)
            \o (IF s.lines_deleted > 0 THEN << << "-", s.lines_deleted >> >> ELSE << >>)
            \o (IF has_unpushed THEN << << "^", s.commits_ahead >> >> ELSE << >>)

\* the third line of a row
StatusLine(status, spinner) ==
    IF is_none(status) THEN << spinner, "Loading..." >>
    ELSE IF unwrap(status).is_orphaned THEN << "Orphaned - directory missing" >>
    ELSE StatusDetails(unwrap(status))

build_worktree_list_item(item, is_checked, show_checkbox, is_selected, spinner) ==
    [prefix |-> IF show_checkbox THEN Some(is_checked) ELSE None,
     icon |-> RowIcon(item.status),
     branch |-> item.branch,
     summary |-> SummaryLine(item.status, item.summary_state, spinner),
     details |-> StatusLine(item.status, spinner),
     highlighted |-> is_selected]

\* SPINNER_FRAMES[self.frame % SPINNER_FRAMES.len()]
spinner_char(a) == a.frame % FrameWrap

build_list_items(v, a) ==
    [i \in DOMAIN a.items |->
        build_worktree_list_item(a.items[i],
                                 IF v = "multi" THEN a.selected[i] ELSE FALSE,
                                 v = "multi",
                                 a.list_state = Some(i),
                                 spinner_char(a))]

\* the indicators of the title: Loading: n, Summarizing: n
build_title(a) ==
    (IF a.pending_status > 0 THEN << << "Loading", a.pending_status >> >> ELSE << >>)
    \o (IF a.pending_summaries > 0
        THEN << << "Summarizing", a.pending_summaries >> >> ELSE << >>)

\* the frame that terminal.draw() renders from the application state
Frame(v, a) == [title |-> build_title(a), rows |-> build_list_items(v, a)]

\* mutant: the status command looks at uncommitted changes before orphaned
Mut_StatusCommandIcon_OrphanedLast(s) ==
    IF s.has_uncommitted /\ s.has_unpushed THEN << "dot", "Red" >>
    ELSE IF s.has_uncommitted THEN << "dot", "Yellow" >>
    ELSE IF s.has_unpushed THEN << "dot", "Blue" >>
    ELSE IF s.is_orphaned THEN << "cross", "Red" >>
    ELSE << "dot", "Green" >>

\* status.rs: the (icon, color) printed for one result
StatusCommandIcon(s) ==
    IF s.is_orphaned THEN << "cross", "Red" >>
    ELSE IF s.has_uncommitted /\ s.has_unpushed THEN << "dot", "Red" >>
    ELSE IF s.has_uncommitted THEN << "dot", "Yellow" >>
    ELSE IF s.has_unpushed THEN << "dot", "Blue" >>
    ELSE << "dot", "Green" >>

\* status.rs: everything printed for one result
StatusCommandRow(r) ==
    [icon |-> StatusCommandIcon(r.status),
     branch |-> r.branch,
     summary |-> IF r.status.is_orphaned THEN None
                 ELSE IF is_none(r.summary) THEN None
                 ELSE Some(<< unwrap(r.summary) >>),
     details |-> IF r.status.is_orphaned THEN << "Orphaned - directory missing" >>
                 ELSE StatusDetails(r.status)]

(***************************************************************************)
(* io::Result, the terminal's raw mode and the RawModeGuard                *)
(***************************************************************************)
Ok(v) == [tag |-> "Ok", val |-> v]

Err == [tag |-> "Err"]

\* crossterm::terminal::enable_raw_mode() succeeded; `let _guard = RawModeGuard`
AcquireRawMode(t, owner) ==
    [t EXCEPT !.raw_mode = TRUE, !.enables = @ + 1, !.guards = @ \cup {owner}]

\* mutant: dropping the guard does not disable raw mode
Mut_drop_NoDisable(t, owner) == [t EXCEPT !.guards = @ \ {owner}]

\* impl Drop for RawModeGuard
RawModeGuard_drop(t, owner) ==
    [t EXCEPT !.raw_mode = FALSE, !.disables = @ + 1, !.guards = @ \ {owner}]

\* leaving a function's scope drops its guard if it holds one
LeaveScope(t, owner) ==
    IF owner \in t.guards THEN RawModeGuard_drop(t, owner) ELSE t

(***************************************************************************)
(* State                                                                   *)
(***************************************************************************)
VARIABLES
    variant,      \* "single" (continue) or "multi" (cleanup -i)
    worktrees,    \* Vec<Worktree> of the command: index -> branch
    pc,           \* position of the main thread
    app,          \* Option<SingleSelectApp | MultiSelectApp> of the session
    event,        \* Option<Event>: the key that broke out of the last loop
    ret,          \* Option<io::Result<..>> returned by the selection session
    chan,         \* the unbounded mpsc channel: updates sent and not received
    rx_alive,     \* update_rx has not been dropped
    tasks,        \* index -> position of that worktree's background task
    term,         \* raw mode of the terminal and the live RawModeGuards
    fresh,        \* index -> Option<WorktreeStatus> probed after the session
    with_changes, \* worktrees_with_changes (indices), named in the warning
    prompted,     \* confirm() has been called
    answer,       \* Option<io::Result<bool>> returned by confirm()
    removed,      \* removals attempted so far: <<[index, ok]>>
    deleted,      \* the `deleted` counter of run_interactive
    outcome,      \* how the command ended
    results,      \* status command: Vec<(branch, status, summary)> collected
    printed,      \* status command: the rows printed so far
    url,          \* clone command: the url argument, a sequence of characters
    probed,       \* automatic cleanup: what each iteration observed
    cleaned,      \* the `cleaned` counter of run_automatic
    docker        \* run_container_with_output: spinner flag, thread, display

selVars == << app, event, ret >>

chanVars == << chan, rx_alive, tasks >>

cleanupVars == << fresh, with_changes, prompted, answer, removed, deleted >>

\* the state of the commands that run without a selection session
cmdVars == << url, probed, cleaned, docker >>

vars == << variant, worktrees, pc, app, event, ret, chan, rx_alive,
           tasks, term, fresh, with_changes, prompted, answer, removed,
           deleted, outcome, results, printed, url, probed, cleaned, docker >>

Indices == DOMAIN worktrees

\* items built by the callers: status None, summary None
InitialItems(wts) == [i \in DOMAIN wts |-> WorktreeItem(wts[i])]

NewApp(v, items) ==
    IF v = "single" THEN SingleSelectApp_new(items) ELSE MultiSelectApp_new(items)

TheApp == unwrap(app)

\* before run_container_with_output: no flag, no spinner thread, no display
NoDocker ==
    [spinner_running |-> FALSE, spinner_thread |-> "none", spinner_idx |-> 0,
     lines |-> 0, finished |-> FALSE]

InitTerm == [raw_mode |-> FALSE, guards |-> {}, enables |-> 0, disables |-> 0]

InitCommon ==
    /\ variant \in {"single", "multi"}
    /\ event = None
    /\ ret = None
    /\ chan = << >>
    /\ term = InitTerm
    /\ fresh = EmptyVec
    /\ with_changes = << >>
    /\ prompted = FALSE
    /\ answer = None
    /\ removed = << >>
    /\ deleted = 0
    /\ outcome = "running"
    /\ results = << >>
    /\ printed = << >>
    /\ url = << >>
    /\ probed = << >>
    /\ cleaned = 0
    /\ docker = NoDocker

\* the command has listed at least one worktree, built the items and the
\* channel and spawned one task per worktree; the session is about to start
Init ==
    /\ InitCommon
    /\ \E n \in 0..MaxItems : worktrees = [i \in 0..(n - 1) |-> i]
    /\ pc = "start"
    /\ app = None
    /\ rx_alive = TRUE
    /\ tasks = [i \in DOMAIN worktrees |-> "probe"]

(***************************************************************************)
(* Background tasks (spawn_blocking closures of cleanup.rs / continue)     *)
(***************************************************************************)
\* mutant: the channel hands out the newest update first
Mut_Send_Prepend(ch, alive, update) == IF alive THEN << update >> \o ch ELSE ch

\* tx.send(): queued while the receiver lives, Err (ignored) afterwards
Send(ch, alive, update) == IF alive THEN Append(ch, update) ELSE ch

\* what git::get_ai_summary(&path) may return (Option<String>; the function
\* is not in src/, spec section 5: probe_summary -> Option<text>)
get_ai_summary == {None} \cup {Some(text) : text \in Texts}

\* mutant: every status asks for a summary
Mut_NeedsSummary_Always(status) == TRUE

NeedsSummary(status) == status.has_uncommitted /\ ~status.is_orphaned

\* mutant: the task writes the status into the item itself
Mut_TaskStatus_WritesModel(i) ==
    /\ pc # "start"
    /\ tasks[i] = "probe"
    /\ \E status \in StatusSet :
         /\ IF is_none(app)
            THEN /\ chan' = Send(chan, rx_alive, StatusUpdate(i, status))
                 /\ app' = app
            ELSE /\ chan' = chan
                 /\ app' = Some(MultiSelectApp_update_status(unwrap(app), i, status))
         /\ tasks' = [tasks EXCEPT ![i] =
                        IF NeedsSummary(status) THEN "send_started" ELSE "done"]
    /\ UNCHANGED << variant, worktrees, cmdVars, results, printed, pc, event, ret, rx_alive, term,
                    cleanupVars, outcome >>

TaskStatus(i) ==
    /\ pc # "start"
    /\ tasks[i] = "probe"
    /\ \E status \in StatusSet :
         /\ chan' = Send(chan, rx_alive, StatusUpdate(i, status))
         /\ tasks' = [tasks EXCEPT ![i] =
                        IF NeedsSummary(status) THEN "send_started" ELSE "done"]
    /\ UNCHANGED << variant, worktrees, cmdVars, results, printed, pc, selVars, rx_alive, term,
                    cleanupVars, outcome >>

\* mutant: the task announces the summary again and again
Mut_TaskSummaryStarted_Resend(i) ==
    /\ tasks[i] = "send_started"
    /\ chan' = Send(chan, rx_alive, SummaryStartedUpdate(i))
    /\ \/ tasks' = [tasks EXCEPT ![i] = "summarize"]
       \/ tasks' = tasks
    /\ UNCHANGED << variant, worktrees, cmdVars, results, printed, pc, selVars, rx_alive, term,
                    cleanupVars, outcome >>

TaskSummaryStarted(i) ==
    /\ tasks[i] = "send_started"
    /\ chan' = Send(chan, rx_alive, SummaryStartedUpdate(i))
    /\ tasks' = [tasks EXCEPT ![i] = "summarize"]
    /\ UNCHANGED << variant, worktrees, cmdVars, results, printed, pc, selVars, rx_alive, term,
                    cleanupVars, outcome >>

\* mutant: the send of the summary waits for a receiver
Mut_TaskSummary_NeedsReceiver(i) ==
    /\ tasks[i] = "summarize"
    /\ rx_alive
    /\ \E summary \in get_ai_summary :
         chan' = IF is_none(summary) THEN chan
                 ELSE Send(chan, rx_alive, SummaryUpdate(i, unwrap(summary)))
    /\ tasks' = [tasks EXCEPT ![i] = "done"]
    /\ UNCHANGED << variant, worktrees, cmdVars, results, printed, pc, selVars, rx_alive, term,
                    cleanupVars, outcome >>

\* if let Some(summary) = git::get_ai_summary(&path) { tx.send(Summary {..}) }
TaskSummary(i) ==
    /\ tasks[i] = "summarize"
    /\ \E summary \in get_ai_summary :
         chan' = IF is_none(summary) THEN chan
                 ELSE Send(chan, rx_alive, SummaryUpdate(i, unwrap(summary)))
    /\ tasks' = [tasks EXCEPT ![i] = "done"]
    /\ UNCHANGED << variant, worktrees, cmdVars, results, printed, pc, selVars, rx_alive, term,
                    cleanupVars, outcome >>

(***************************************************************************)
(* continue_session.rs: run / cleanup.rs: run, up to the session           *)
(***************************************************************************)
Finish(how) ==
    /\ pc' = "exit"
    /\ outcome' = how

\* mutant: the session is started on an empty list as well
Mut_CommandStart_NoEmptyCheck ==
    /\ pc = "start"
    /\ pc' = "sel_enable"
    /\ UNCHANGED << variant, worktrees, cmdVars, results, printed, selVars, chanVars, term,
                    cleanupVars, outcome >>

\* if worktrees.is_empty() { .. bail!(..) } in continue, { .. return Ok(()) } in
\* cleanup; otherwise the items, the channel and the spawned tasks
CommandStart ==
    /\ pc = "start"
    /\ IF DOMAIN worktrees = {}
       THEN Finish(IF variant = "single" THEN "error" ELSE "empty")
       ELSE /\ pc' = "sel_enable"
            /\ UNCHANGED outcome
    /\ UNCHANGED << variant, worktrees, cmdVars, results, printed, selVars, chanVars, term,
                    cleanupVars >>

(***************************************************************************)
(* run_single_selection_async / run_multi_selection_async                  *)
(***************************************************************************)
\* every way out of the session: the value goes to the caller, and app,
\* terminal, _guard and update_rx are dropped
SelReturn(value) ==
    /\ ret' = Some(value)
    /\ app' = None
    /\ chan' = << >>
    /\ rx_alive' = FALSE
    /\ term' = LeaveScope(term, "selection")
    /\ pc' = "after_selection"
    /\ UNCHANGED << variant, worktrees, cmdVars, results, printed, tasks, cleanupVars, outcome >>

\* a step of the session that only moves on
SelStep(next) ==
    /\ pc' = next
    /\ UNCHANGED << variant, worktrees, cmdVars, results, printed, ret, chanVars, cleanupVars, outcome >>

\* crossterm::terminal::enable_raw_mode()?; let _guard = RawModeGuard;
SelEnableRawMode ==
    /\ pc = "sel_enable"
    /\ \/ /\ term' = AcquireRawMode(term, "selection")
          /\ SelStep("sel_setup")
          /\ UNCHANGED << app, event >>
       \/ /\ SelReturn(Err)
          /\ UNCHANGED event

\* setup_inline_terminal(viewport_height)?; App::new(items)
SelSetup ==
    /\ pc = "sel_setup"
    /\ \/ /\ app' = Some(NewApp(variant, InitialItems(worktrees)))
          /\ SelStep("sel_draw")
          /\ UNCHANGED << event, term >>
       \/ /\ SelReturn(Err)
          /\ UNCHANGED event

Tick(v, a) ==
    IF v = "single" THEN SingleSelectApp_tick(a) ELSE MultiSelectApp_tick(a)

\* app.tick(); build_list_items(); build_title(); terminal.draw(..)?
SelDraw ==
    /\ pc = "sel_draw"
    /\ \/ /\ app' = Some(Tick(variant, TheApp))
          /\ SelStep("sel_poll")
          /\ UNCHANGED << event, term >>
       \/ /\ SelReturn(Err)
          /\ UNCHANGED event

KeyMatch(v, a, code, ctrl) ==
    IF v = "single" THEN SingleSelectMatch(a, code, ctrl)
                    ELSE MultiSelectMatch(a, code, ctrl)

\* mutant: after a timeout the loop starts over without draining
Mut_SelPollTimeout_SkipsDrain ==
    /\ pc = "sel_poll"
    /\ SelStep("sel_draw")
    /\ UNCHANGED << app, event, term >>

\* if event::poll(..)? { if let Event::Key(..) = event::read()? { match code {..} } }
\* with poll() = Ok(false): the timeout passed, nothing is read
SelPollTimeout ==
    /\ pc = "sel_poll"
    /\ SelStep("sel_drain")
    /\ UNCHANGED << app, event, term >>

\* mutant: a failed poll or read ends the session like a cancellation
Mut_SelPollError_Cancels ==
    /\ pc = "sel_poll"
    /\ SelReturn(Ok(None))
    /\ UNCHANGED event

\* poll() or read() failed
SelPollError ==
    /\ pc = "sel_poll"
    /\ SelReturn(Err)
    /\ UNCHANGED event

\* poll() = Ok(true) and read() = Ok(e): e is matched.  A `break r` leaves the
\* loop: terminal.clear()?; Ok(r).  `event` keeps the key that broke out.
SelPollEvent ==
    /\ pc = "sel_poll"
    /\ \E e \in SelectionEvents :
         IF e.kind # "Key"
         THEN /\ SelStep("sel_drain")
              /\ UNCHANGED << app, event, term >>
         ELSE LET m == KeyMatch(variant, TheApp, e.code, e.ctrl)
              IN IF is_none(m.brk)
                 THEN /\ app' = Some(m.app)
                      /\ SelStep("sel_drain")
                      /\ UNCHANGED << event, term >>
                 ELSE /\ event' = Some(e)
                      /\ \/ SelReturn(Ok(unwrap(m.brk)))
                         \/ SelReturn(Err)

ApplyUpdate(v, a, update) ==
    IF v = "single" THEN SingleSelectApply(a, update)
                    ELSE MultiSelectApply(a, update)

\* mutant: the loop draws again after every single update
Mut_SelRecv_OnePerIteration ==
    /\ pc = "sel_drain"
    /\ chan # << >>
    /\ app' = Some(ApplyUpdate(variant, unwrap(app), Head(chan)))
    /\ chan' = Tail(chan)
    /\ pc' = "sel_draw"
    /\ UNCHANGED << variant, worktrees, cmdVars, results, printed, event, ret, rx_alive,
                    tasks, term, cleanupVars, outcome >>

\* while let Ok(update) = update_rx.try_recv() { .. }: one received update
SelRecv ==
    /\ pc = "sel_drain"
    /\ chan # << >>
    /\ app' = Some(ApplyUpdate(variant, TheApp, Head(chan)))
    /\ chan' = Tail(chan)
    /\ UNCHANGED << variant, worktrees, cmdVars, results, printed, pc, event, ret, rx_alive,
                    tasks, term, cleanupVars, outcome >>

\* mutant: a closed channel (every task finished) ends the loop
Mut_SelDrained_BreakOnClosed ==
    /\ pc = "sel_drain"
    /\ chan = << >>
    /\ IF \A i \in Indices : tasks[i] = "done"
       THEN /\ SelReturn(Ok(None))
            /\ UNCHANGED event
       ELSE /\ SelStep("sel_draw")
            /\ UNCHANGED << app, event, term >>

\* try_recv() is Err(Empty) or Err(Disconnected): next iteration
SelDrained ==
    /\ pc = "sel_drain"
    /\ chan = << >>
    /\ SelStep("sel_draw")
    /\ UNCHANGED << app, event, term >>

(***************************************************************************)
(* continue_session.rs: run, after the single selection                    *)
(***************************************************************************)
\* mutant: a cancelled selection falls through to the container start
Mut_ContinueAfterSelection_NoneStarts ==
    /\ pc = "after_selection"
    /\ variant = "single"
    /\ LET r == unwrap(ret)
       IN CASE r.tag = "Err" -> Finish("error")
            [] OTHER -> Finish("container")
    /\ UNCHANGED << variant, worktrees, cmdVars, results, printed, selVars, chanVars, term, cleanupVars >>

\* match selection { Some(idx) => worktrees[idx].branch.clone(), None => return Ok(()) }
ContinueAfterSelection ==
    /\ pc = "after_selection"
    /\ variant = "single"
    /\ LET r == unwrap(ret)
       IN CASE r.tag = "Err" -> Finish("error")
            [] r.tag = "Ok" /\ is_none(r.val) -> Finish("cancelled")
            [] OTHER -> IF unwrap(r.val) \in DOMAIN worktrees
                        THEN Finish("container")
                        ELSE Finish("panic")
    /\ UNCHANGED << variant, worktrees, cmdVars, results, printed, selVars, chanVars, term, cleanupVars >>

(***************************************************************************)
(* cleanup.rs: run_interactive, after the multi selection                  *)
(***************************************************************************)
\* the indices of a confirmed selection
Confirmed == unwrap(unwrap(ret).val)

SeqRange(q) == {q[k] : k \in DOMAIN q}

\* let selection = run_multi_selection_async(..).await?; let Some(indices) = ..
CleanupAfterSelection ==
    /\ pc = "after_selection"
    /\ variant = "multi"
    /\ LET r == unwrap(ret)
       IN CASE r.tag = "Err" -> Finish("error")
            [] r.tag = "Ok" /\ is_none(r.val) -> Finish("cancelled")
            [] OTHER -> IF unwrap(r.val) = << >>
                        THEN Finish("cancelled")
                        ELSE IF SeqRange(unwrap(r.val)) \subseteq DOMAIN worktrees
                             THEN /\ pc' = "recheck"
                                  /\ UNCHANGED outcome
                             ELSE Finish("panic")
    /\ UNCHANGED << variant, worktrees, cmdVars, results, printed, selVars, chanVars, term, cleanupVars >>

\* what git::get_worktree_status(&wt.path) may return: Ok(status) or Err
ProbeResults == {Some(status) : status \in StatusSet} \cup {None}

\* mutant: a failed probe counts as local changes
Mut_HasChanges_FailedIsDirty(probe) ==
    IF is_none(probe) THEN TRUE ELSE has_local_changes(unwrap(probe))

\* .map(|s| s.has_local_changes()).unwrap_or(false)
HasChanges(probe) == IF is_none(probe) THEN FALSE ELSE has_local_changes(unwrap(probe))

\* worktrees_with_changes: the fresh probe of every selected worktree
CleanupRecheck ==
    /\ pc = "recheck"
    /\ \E probes \in [SeqRange(Confirmed) -> ProbeResults] :
         /\ fresh' = probes
         /\ with_changes' = SelectSeq(Confirmed, LAMBDA i : HasChanges(probes[i]))
    /\ pc' = IF with_changes' # << >> THEN "warn" ELSE "delete"
    /\ UNCHANGED << variant, worktrees, cmdVars, results, printed, selVars, chanVars, term, prompted,
                    answer, removed, deleted, outcome >>

\* the warning that names worktrees_with_changes, then tui::confirm(..)
CleanupWarn ==
    /\ pc = "warn"
    /\ prompted' = TRUE
    /\ pc' = "confirm_enable"
    /\ UNCHANGED << variant, worktrees, cmdVars, results, printed, selVars, chanVars, term, fresh,
                    with_changes, answer, removed, deleted, outcome >>

\* if !tui::confirm(..)? { println!("Cancelled."); return Ok(()); }
CleanupAfterConfirm ==
    /\ pc = "after_confirm"
    /\ LET r == unwrap(answer)
       IN CASE r.tag = "Err" -> Finish("error")
            [] r.tag = "Ok" /\ ~r.val -> Finish("cancelled")
            [] OTHER -> /\ pc' = "delete"
                        /\ UNCHANGED outcome
    /\ UNCHANGED << variant, worktrees, cmdVars, results, printed, selVars, chanVars, term, cleanupVars >>

\* for wt in selected_worktrees { match git::remove_worktree_with_branch(..) }
CleanupRemove ==
    /\ pc = "delete"
    /\ Len(removed) < Len(Confirmed)
    /\ \E ok \in BOOLEAN :
         /\ removed' = Append(removed, [index |-> Confirmed[Len(removed) + 1],
                                        ok |-> ok])
         /\ deleted' = IF ok THEN deleted + 1 ELSE deleted
    /\ UNCHANGED << variant, worktrees, cmdVars, results, printed, pc, selVars, chanVars, term, fresh,
                    with_changes, prompted, answer, outcome >>

\* mutant: the loop stops at the first removal that failed
Mut_CleanupDone_StopOnFailure ==
    /\ pc = "delete"
    /\ \/ Len(removed) = Len(Confirmed)
       \/ removed # << >> /\ ~removed[Len(removed)].ok
    /\ Finish("deleted")
    /\ UNCHANGED << variant, worktrees, cmdVars, results, printed, selVars, chanVars, term, cleanupVars >>

\* println!("Deleted {} worktree(s)", deleted); Ok(())
CleanupDone ==
    /\ pc = "delete"
    /\ Len(removed) = Len(Confirmed)
    /\ Finish("deleted")
    /\ UNCHANGED << variant, worktrees, cmdVars, results, printed, selVars, chanVars, term, cleanupVars >>

(***************************************************************************)
(* tui::confirm                                                            *)
(***************************************************************************)
ConfirmReturn(value) ==
    /\ answer' = Some(value)
    /\ term' = LeaveScope(term, "confirm")
    /\ pc' = "after_confirm"
    /\ UNCHANGED << variant, worktrees, cmdVars, results, printed, app, ret, chanVars, fresh,
                    with_changes, prompted, removed, deleted, outcome >>

ConfirmStep(next) ==
    /\ pc' = next
    /\ UNCHANGED << variant, worktrees, cmdVars, results, printed, app, ret, chanVars,
                    cleanupVars, outcome >>

\* crossterm::terminal::enable_raw_mode()?; let _guard = RawModeGuard;
ConfirmEnableRawMode ==
    /\ pc = "confirm_enable"
    /\ event' = None
    /\ \/ /\ term' = AcquireRawMode(term, "confirm")
          /\ ConfirmStep("confirm_flush")
       \/ ConfirmReturn(Err)

\* print!("{} [y/N] ", message); io::Write::flush(&mut stdout())?
ConfirmFlush ==
    /\ pc = "confirm_flush"
    /\ \/ /\ ConfirmStep("confirm_poll")
          /\ UNCHANGED << event, term >>
       \/ /\ ConfirmReturn(Err)
          /\ UNCHANGED event

\* loop { if event::poll(..)? { if let Event::Key(..) = event::read()? {..} } }
\* poll() or read() failed
ConfirmPollError ==
    /\ pc = "confirm_poll"
    /\ ConfirmReturn(Err)
    /\ UNCHANGED event

\* poll() = Ok(true) and read() = Ok(e): e is matched (a timeout polls again);
\* after the loop: println!(); Ok(result).  `event` is the last event the
\* prompt has read, None until it has read one.
ConfirmPollEvent ==
    /\ pc = "confirm_poll"
    /\ \E e \in ConfirmEvents :
         LET brk == IF e.kind = "Key" THEN ConfirmMatch(e.code) ELSE None
         IN /\ event' = Some(e)
            /\ IF is_none(brk)
               THEN /\ ConfirmStep("confirm_poll")
                    /\ UNCHANGED term
               ELSE ConfirmReturn(Ok(unwrap(brk)))

(***************************************************************************)
(* The program: one command run with its background tasks                  *)
(***************************************************************************)
Next ==
    \/ CommandStart
    \/ \E i \in Indices : TaskStatus(i)
    \/ \E i \in Indices : TaskSummaryStarted(i)
    \/ \E i \in Indices : TaskSummary(i)
    \/ SelEnableRawMode
    \/ SelSetup
    \/ SelDraw
    \/ SelPollTimeout
    \/ SelPollError
    \/ SelPollEvent
    \/ SelRecv
    \/ SelDrained
    \/ ContinueAfterSelection
    \/ CleanupAfterSelection
    \/ CleanupRecheck
    \/ CleanupWarn
    \/ CleanupAfterConfirm
    \/ CleanupRemove
    \/ CleanupDone
    \/ ConfirmEnableRawMode
    \/ ConfirmFlush
    \/ ConfirmPollError
    \/ ConfirmPollEvent

Spec == Init /\ [][Next]_vars

\* The scheduling the code justifies: a spawned blocking task runs its probe
\* and sends, and the render loop goes on because poll() has a timeout.
Fairness ==
    /\ WF_vars(CommandStart)
    /\ WF_vars(SelEnableRawMode)
    /\ WF_vars(SelSetup)
    /\ WF_vars(SelDraw)
    /\ WF_vars(SelPollTimeout \/ SelPollEvent \/ SelPollError)
    /\ WF_vars(SelRecv)
    /\ WF_vars(SelDrained)
    /\ \A i \in 0..(MaxItems - 1) : WF_vars(i \in Indices /\ TaskStatus(i))

SpecFair == Spec /\ Fairness

(***************************************************************************)
(* The selection model driven directly: App::new(items) followed by any    *)
(* sequence of update_* calls and keys, with any index and any repetition  *)
(* (what a unit test of SingleSelectApp / MultiSelectApp does)             *)
(***************************************************************************)
InitModel ==
    /\ InitCommon
    /\ \E n \in 0..MaxItems : worktrees = [i \in 0..(n - 1) |-> i]
    /\ pc = "model"
    /\ app = Some(NewApp(variant, InitialItems(worktrees)))
    /\ rx_alive = FALSE
    /\ tasks = [i \in DOMAIN worktrees |-> "done"]

\* every update value, also for indices past the end of the list
ModelUpdates ==
    {StatusUpdate(i, status) : i \in 0..MaxItems, status \in ModelStatusSet}
    \cup {SummaryStartedUpdate(i) : i \in 0..MaxItems}
    \cup {SummaryUpdate(i, text) : i \in 0..MaxItems, text \in Texts}

ModelStep ==
    /\ pc = "model"
    /\ UNCHANGED << variant, worktrees, cmdVars, results, printed, pc, event, ret, chanVars, term,
                    cleanupVars, outcome >>

ModelUpdate ==
    /\ ModelStep
    /\ \E update \in ModelUpdates :
         app' = Some(ApplyUpdate(variant, TheApp, update))

\* a key whose arm stays in the loop
ModelKey ==
    /\ ModelStep
    /\ \E e \in SelectionEvents :
         /\ e.kind = "Key"
         /\ LET m == KeyMatch(variant, TheApp, e.code, e.ctrl)
            IN /\ is_none(m.brk)
               /\ app' = Some(m.app)

NextModel ==
    \/ ModelUpdate
    \/ ModelKey

SpecModel == InitModel /\ [][NextModel]_vars

(***************************************************************************)
(* status.rs: run, the status command.  Every worktree is probed by a      *)
(* blocking task, the results are collected in list order and printed.     *)
(***************************************************************************)
\* a snapshot with the given flags and counts that go with them
StatusOfFlags(orph, uncom, unpushed) ==
    WorktreeStatus(orph, uncom, unpushed,
                   IF uncom THEN 1 ELSE 0, 0, IF uncom THEN 1 ELSE 0, 0,
                   IF unpushed THEN 1 ELSE 0)

\* what get_worktree_status(..).unwrap_or_default() may yield: every
\* combination of the three flags, and two snapshots with equal flags
StatusCommandStatuses ==
    {StatusOfFlags(o, u, p) : o \in BOOLEAN, u \in BOOLEAN, p \in BOOLEAN}
    \cup {UntrackedStatus, DirtyUnpushedStatus}

InitStatus ==
    /\ variant = "status"
    /\ \E n \in 0..MaxItems : worktrees = [i \in 0..(n - 1) |-> i]
    /\ pc = "status_list"
    /\ app = None
    /\ event = None
    /\ ret = None
    /\ chan = << >>
    /\ rx_alive = FALSE
    /\ tasks = [i \in DOMAIN worktrees |-> "probe"]
    /\ term = InitTerm
    /\ fresh = EmptyVec
    /\ with_changes = << >>
    /\ prompted = FALSE
    /\ answer = None
    /\ removed = << >>
    /\ deleted = 0
    /\ outcome = "running"
    /\ results = << >>
    /\ printed = << >>
    /\ url = << >>
    /\ probed = << >>
    /\ cleaned = 0
    /\ docker = NoDocker

\* if worktrees.is_empty() { .. return Ok(()) }; print!(..); io::stdout().flush()?
StatusStart ==
    /\ pc = "status_list"
    /\ IF DOMAIN worktrees = {}
       THEN Finish("empty")
       ELSE \/ /\ pc' = "status_collect"
               /\ UNCHANGED outcome
            \/ Finish("error")
    /\ UNCHANGED << variant, worktrees, cmdVars, results, printed, selVars, chanVars,
                    term, cleanupVars >>

\* the task of the next worktree: status, then the summary if it is needed;
\* results.push(handle.await?)
StatusCollect ==
    /\ pc = "status_collect"
    /\ Len(results) < VecLen(worktrees)
    /\ LET k == Len(results)
       IN \/ /\ \E status \in StatusCommandStatuses :
                  \E summary \in (IF status.has_uncommitted /\ ~status.is_orphaned
                                  THEN get_ai_summary ELSE {None}) :
                      results' = Append(results, [branch |-> worktrees[k],
                                                  status |-> status,
                                                  summary |-> summary])
             /\ tasks' = [tasks EXCEPT ![k] = "done"]
             /\ UNCHANGED << pc, outcome >>
          \/ /\ Finish("error")
             /\ UNCHANGED << results, tasks >>
    /\ UNCHANGED << variant, worktrees, cmdVars, printed, selVars, chan, rx_alive,
                    term, cleanupVars >>

\* style::clear_line(); println!("Claude worktrees:\n")
StatusHeader ==
    /\ pc = "status_collect"
    /\ Len(results) = VecLen(worktrees)
    /\ pc' = "status_print"
    /\ UNCHANGED << variant, worktrees, cmdVars, results, printed, selVars, chanVars,
                    term, cleanupVars, outcome >>

\* for (branch, status, summary) in &results { .. }: one row
StatusPrintRow ==
    /\ pc = "status_print"
    /\ Len(printed) < Len(results)
    /\ printed' = Append(printed, StatusCommandRow(results[Len(printed) + 1]))
    /\ UNCHANGED << variant, worktrees, cmdVars, results, pc, selVars, chanVars,
                    term, cleanupVars, outcome >>

\* print_legend(); Ok(())
StatusLegend ==
    /\ pc = "status_print"
    /\ Len(printed) = Len(results)
    /\ Finish("listed")
    /\ UNCHANGED << variant, worktrees, cmdVars, results, printed, selVars, chanVars,
                    term, cleanupVars >>

NextStatus ==
    \/ StatusStart
    \/ StatusCollect
    \/ StatusHeader
    \/ StatusPrintRow
    \/ StatusLegend

SpecStatus == InitStatus /\ [][NextStatus]_vars

(***************************************************************************)
(* cleanup.rs: run without -i, run_automatic                               *)
(***************************************************************************)
\* what git::is_worktree_synced / is_worktree_unused return: Ok(bool) or Err
BoolResults == {Ok(TRUE), Ok(FALSE), Err}

InitAuto ==
    /\ InitCommon
    /\ variant = "multi"
    /\ \E n \in 0..MaxItems : worktrees = [i \in 0..(n - 1) |-> i]
    /\ pc = "auto_start"
    /\ app = None
    /\ rx_alive = FALSE
    /\ tasks = [i \in DOMAIN worktrees |-> "done"]

AutoStep ==
    UNCHANGED << variant, worktrees, url, docker, selVars, chanVars, term, fresh,
                 with_changes, prompted, answer, deleted, results, printed >>

\* if worktrees.is_empty() { .. return Ok(()) }; run_automatic(worktrees)
AutoStart ==
    /\ pc = "auto_start"
    /\ IF DOMAIN worktrees = {}
       THEN Finish("empty")
       ELSE /\ pc' = "auto_loop"
            /\ UNCHANGED outcome
    /\ UNCHANGED << probed, cleaned, removed >>
    /\ AutoStep

\* git::remove_worktree_with_branch(&wt.path, &wt.branch, true)?; cleaned += 1
AutoRemove(k, seen) ==
    /\ probed' = Append(probed, seen)
    /\ \/ /\ removed' = Append(removed, [index |-> k, ok |-> TRUE])
          /\ cleaned' = cleaned + 1
          /\ UNCHANGED << pc, outcome >>
       \/ /\ removed' = Append(removed, [index |-> k, ok |-> FALSE])
          /\ UNCHANGED cleaned
          /\ Finish("error")

\* the worktree is kept, or a check failed with `?`
AutoKeep(seen, failed) ==
    /\ probed' = Append(probed, seen)
    /\ UNCHANGED << removed, cleaned >>
    /\ IF failed THEN Finish("error") ELSE UNCHANGED << pc, outcome >>

\* mutant: a worktree with local changes is removed when it is synced
Mut_AutoIteration_NoSafeCheck ==
    /\ pc = "auto_loop"
    /\ Len(probed) < VecLen(worktrees)
    /\ AutoStep
    /\ LET k == Len(probed)
       IN \E status \in StatusSet, synced \in BoolResults :
            LET seen == [status |-> status, synced |-> synced, unused |-> Err]
            IN IF status.is_orphaned \/ synced = Ok(TRUE)
               THEN AutoRemove(k, seen)
               ELSE AutoKeep(seen, synced = Err)

\* for wt in worktrees { .. }: one iteration.  A check that is not reached
\* is recorded as Err.
AutoIteration ==
    /\ pc = "auto_loop"
    /\ Len(probed) < VecLen(worktrees)
    /\ AutoStep
    /\ LET k == Len(probed)
       IN \E status \in StatusSet, synced \in BoolResults, unused \in BoolResults :
            LET seen == [status |-> status, synced |-> synced, unused |-> unused]
                skip == [status |-> status, synced |-> Err, unused |-> Err]
            IN IF status.is_orphaned
               THEN AutoRemove(k, skip)
               ELSE IF is_safe_to_delete(status)
               THEN IF synced = Err
                    THEN AutoKeep(skip, TRUE)
                    ELSE IF synced.val
                    THEN AutoRemove(k, [seen EXCEPT !.unused = Err])
                    ELSE IF unused = Err
                    THEN AutoKeep([seen EXCEPT !.unused = Err], TRUE)
                    ELSE IF unused.val
                    THEN AutoRemove(k, seen)
                    ELSE AutoKeep(seen, FALSE)
               ELSE AutoKeep(skip, FALSE)

\* println!("Cleaned up {} worktree(s)", cleaned); Ok(())
AutoDone ==
    /\ pc = "auto_loop"
    /\ Len(probed) = VecLen(worktrees)
    /\ Finish("cleaned")
    /\ UNCHANGED << probed, cleaned, removed >>
    /\ AutoStep

NextAuto ==
    \/ AutoStart
    \/ AutoIteration
    \/ AutoDone

SpecAuto == InitAuto /\ [][NextAuto]_vars

(***************************************************************************)
(* clone.rs: extract_repo_name.  A &str is a sequence of characters.       *)
(***************************************************************************)
MaxUrlLen == 5

UrlChars == {"/", ":", ".", "g", "i", "t", "r"}

DotGit == << ".", "g", "i", "t" >>

\* the urls of test_extract_repo_name
TestUrls ==
    {<< "h", "t", "t", "p", "s", ":", "/", "/", "g", "i", "t", "h", "u", "b", ".", "c", "o", "m", "/", "u", "s", "e", "r", "/", "r", "e", "p", "o", ".", "g", "i", "t" >>,
     << "g", "i", "t", "@", "g", "i", "t", "h", "u", "b", ".", "c", "o", "m", ":", "u", "s", "e", "r", "/", "r", "e", "p", "o", ".", "g", "i", "t" >>,
     << "h", "t", "t", "p", "s", ":", "/", "/", "g", "i", "t", "h", "u", "b", ".", "c", "o", "m", "/", "u", "s", "e", "r", "/", "r", "e", "p", "o" >>,
     << "r", "e", "p", "o", ".", "g", "i", "t" >>,
     << "r", "e", "p", "o" >>}

Urls == UNION {[1..n -> UrlChars] : n \in 0..MaxUrlLen} \cup TestUrls

\* str::trim_end_matches(ch)
RECURSIVE trim_end_matches(_, _)
trim_end_matches(str, ch) ==
    IF str # << >> /\ str[Len(str)] = ch
    THEN trim_end_matches(SubSeq(str, 1, Len(str) - 1), ch)
    ELSE str

\* str::rsplit(ch).next(): the text after the last ch, the whole text when
\* there is none; the iterator always has a first element
rsplit_next(str, ch) ==
    LET at == {k \in 1..Len(str) : str[k] = ch}
    IN IF at = {}
       THEN Some(str)
       ELSE Some(SubSeq(str, (CHOOSE k \in at : \A j \in at : j <= k) + 1, Len(str)))

\* str::strip_suffix(suffix)
strip_suffix(str, suffix) ==
    IF /\ Len(str) >= Len(suffix)
       /\ SubSeq(str, Len(str) - Len(suffix) + 1, Len(str)) = suffix
    THEN Some(SubSeq(str, 1, Len(str) - Len(suffix)))
    ELSE None

extract_repo_name(u) ==
    LET trimmed == trim_end_matches(u, "/")
        first == rsplit_next(trimmed, "/")
        found == IF is_none(first) THEN rsplit_next(trimmed, ":") ELSE first
    IN IF is_none(found)
       THEN None
       ELSE LET stripped == strip_suffix(unwrap(found), DotGit)
                name == IF is_none(stripped) THEN unwrap(found) ELSE unwrap(stripped)
            IN IF name = << >> THEN None ELSE Some(name)

InitClone ==
    /\ variant = "clone"
    /\ worktrees = EmptyVec
    /\ pc = "clone_name"
    /\ app = None
    /\ event = None
    /\ ret = None
    /\ chan = << >>
    /\ rx_alive = FALSE
    /\ tasks = EmptyVec
    /\ term = InitTerm
    /\ fresh = EmptyVec
    /\ with_changes = << >>
    /\ prompted = FALSE
    /\ answer = None
    /\ removed = << >>
    /\ deleted = 0
    /\ outcome = "running"
    /\ results = << >>
    /\ printed = << >>
    /\ url \in Urls
    /\ probed = << >>
    /\ cleaned = 0
    /\ docker = NoDocker

\* let repo_name = extract_repo_name(url)
CloneExtractName ==
    /\ pc = "clone_name"
    /\ ret' = Some(extract_repo_name(url))
    /\ pc' = "clone_named"
    /\ UNCHANGED << variant, worktrees, url, probed, cleaned, docker, app, event,
                    chanVars, term, cleanupVars, outcome, results, printed >>

NextClone == CloneExtractName

SpecClone == InitClone /\ [][NextClone]_vars

(***************************************************************************)
(* docker.rs: run_container_with_output.  The main thread, the spinner     *)
(* thread and the stdout thread share the StreamingDisplay and the         *)
(* spinner_running flag.                                                   *)
(***************************************************************************)
\* SPINNER_CHARS.len()
SpinnerLen == 10

\* the lines of docker's stdout that are shown
MaxLines == 2

InitDocker ==
    /\ InitCommon
    /\ variant = "single"
    /\ worktrees = EmptyVec
    /\ pc = "docker_start"
    /\ app = None
    /\ rx_alive = FALSE
    /\ tasks = EmptyVec

DockerStep ==
    UNCHANGED << variant, worktrees, url, probed, cleaned, selVars, chanVars,
                 term, cleanupVars, results, printed >>

\* StreamingDisplay::tick
StreamingDisplay_tick(d) ==
    IF ~d.finished THEN [d EXCEPT !.spinner_idx = (@ + 1) % SpinnerLen] ELSE d

\* spinner_running = Arc::new(AtomicBool::new(true)); std::thread::spawn(..)
DockerSpawnSpinner ==
    /\ pc = "docker_start"
    /\ docker' = [docker EXCEPT !.spinner_running = TRUE, !.spinner_thread = "start"]
    /\ pc' = "docker_spawn"
    /\ UNCHANGED outcome
    /\ DockerStep

\* Command::new("docker")...spawn().context("Failed to spawn docker container")?
DockerSpawnChild ==
    /\ pc = "docker_spawn"
    /\ \/ /\ pc' = "docker_read"
          /\ UNCHANGED outcome
       \/ /\ pc' = "docker_returned"
          /\ outcome' = "error"
    /\ UNCHANGED docker
    /\ DockerStep

\* the stdout thread: a line that process_event shows, the result event that
\* finishes the display, or the end of the output, after which
\* stdout_thread.join() and stderr_thread.join() return
DockerOutput ==
    /\ pc = "docker_read"
    /\ \/ /\ docker.lines < MaxLines
          /\ ~docker.finished
          /\ docker' = [docker EXCEPT !.lines = @ + 1]
          /\ UNCHANGED pc
       \/ /\ ~docker.finished
          /\ docker' = [docker EXCEPT !.finished = TRUE]
          /\ UNCHANGED pc
       \/ /\ pc' = "docker_stop"
          /\ UNCHANGED docker
    /\ UNCHANGED outcome
    /\ DockerStep

\* spinner_running.store(false, Ordering::SeqCst)
DockerStopSpinner ==
    /\ pc = "docker_stop"
    /\ docker' = [docker EXCEPT !.spinner_running = FALSE]
    /\ pc' = "docker_join"
    /\ UNCHANGED outcome
    /\ DockerStep

\* spinner_thread.join(): returns once the thread has ended
DockerJoinSpinner ==
    /\ pc = "docker_join"
    /\ docker.spinner_thread = "exited"
    /\ pc' = "docker_wait"
    /\ UNCHANGED << docker, outcome >>
    /\ DockerStep

\* child.wait()?; reset_terminal(); if !status.success() { bail!(..) }; Ok(())
DockerWait ==
    /\ pc = "docker_wait"
    /\ pc' = "docker_returned"
    /\ outcome' \in {"setup", "error"}
    /\ UNCHANGED docker
    /\ DockerStep

\* the spinner thread: display_spinner.lock().unwrap().redraw()
SpinnerStart ==
    /\ docker.spinner_thread = "start"
    /\ docker' = [docker EXCEPT !.spinner_thread = "check"]
    /\ UNCHANGED << pc, outcome >>
    /\ DockerStep

\* while spinner_flag.load(Ordering::SeqCst) { std::thread::sleep(..); .. }
SpinnerCheck ==
    /\ docker.spinner_thread = "check"
    /\ docker' = [docker EXCEPT !.spinner_thread =
                     IF docker.spinner_running THEN "sleep" ELSE "exited"]
    /\ UNCHANGED << pc, outcome >>
    /\ DockerStep

\* if spinner_flag.load(Ordering::SeqCst) { display_spinner.lock().unwrap().tick(); }
SpinnerWake ==
    /\ docker.spinner_thread = "sleep"
    /\ docker' = [(IF docker.spinner_running THEN StreamingDisplay_tick(docker)
                                             ELSE docker)
                  EXCEPT !.spinner_thread = "check"]
    /\ UNCHANGED << pc, outcome >>
    /\ DockerStep

NextDocker ==
    \/ DockerSpawnSpinner
    \/ DockerSpawnChild
    \/ DockerOutput
    \/ DockerStopSpinner
    \/ DockerJoinSpinner
    \/ DockerWait
    \/ SpinnerStart
    \/ SpinnerCheck
    \/ SpinnerWake

SpecDocker == InitDocker /\ [][NextDocker]_vars

(***************************************************************************)
(* Properties                                                              *)
(***************************************************************************)
AppLive == ~is_none(app)

Items == TheApp.items

\* the step is (also) explained as the application of `update`
Applies(update) == app' = Some(ApplyUpdate(variant, TheApp, update))

InRange(update) == update.index \in DOMAIN Items

(* C1: in both variants, after any sequence of updates, pending_status is  *)
(* the number of items whose status is absent; a step in which an item     *)
(* gets its first status lowers it by exactly 1, every other step (a later *)
(* Status update of that index, a summary update) leaves it unchanged.     *)
C1_PendingInv ==
    AppLive => TheApp.pending_status = Cardinality({i \in DOMAIN Items : is_none(Items[i].status)})

\* the items whose status is absent before the step and present after it
FirstStatus ==
    {i \in DOMAIN Items : /\ is_none(Items[i].status)
                          /\ ~is_none(TheApp'.items[i].status)}

C1_PendingStep ==
    (AppLive /\ AppLive') =>
        /\ Cardinality(FirstStatus) <= 1
        /\ TheApp'.pending_status = TheApp.pending_status - Cardinality(FirstStatus)

C1_PendingStatusCounts == [][C1_PendingStep]_vars /\ []C1_PendingInv

\* a duplicate Status update can have been applied: every item has a status
C1_Witness ==
    /\ pc = "model"
    /\ DOMAIN Items = 0..(MaxItems - 1)
    /\ TheApp.pending_status = 0
    /\ \A i \in DOMAIN Items : ~is_none(Items[i].status)

(* C2: for every item the summary state never moves backward in the order *)
(* None < Queued < Summarizing < Done, and once it is Done(text) no later  *)
(* update changes the state or the text.                                   *)
Rank(state) ==
    CASE state.tag = "None" -> 0
      [] state.tag = "Queued" -> 1
      [] state.tag = "Summarizing" -> 2
      [] state.tag = "Done" -> 3

C2_Step ==
    (AppLive /\ AppLive') =>
        \A i \in DOMAIN Items :
            LET before == Items[i].summary_state
                after == TheApp'.items[i].summary_state
            IN /\ Rank(after) >= Rank(before)
               /\ before.tag = "Done" => after = before

C2_SummaryNeverRegresses == [][C2_Step]_vars

(* C3: when an item's Status update showed no uncommitted changes or an    *)
(* orphaned unit, so that its summary stayed None, a SummaryStarted or     *)
(* Summary update applied for that index afterwards is ignored: the        *)
(* summary stays None and pending_summaries is unchanged.                  *)
NoSummaryNeeded(item) ==
    /\ ~is_none(item.status)
    /\ ~NeedsSummary(unwrap(item.status))
    /\ item.summary_state = SummaryNone

C3_Step ==
    \A update \in ModelUpdates :
        ( /\ AppLive
          /\ update.type \in {"SummaryStarted", "Summary"}
          /\ InRange(update)
          /\ NoSummaryNeeded(Items[update.index])
          /\ Applies(update) )
        => /\ TheApp'.items[update.index].summary_state = SummaryNone
           /\ TheApp'.pending_summaries = TheApp.pending_summaries

C3_StraySummaryIgnored == [][C3_Step]_vars

(* C4: in interactive cleanup, once the confirmation prompt is shown,      *)
(* worktrees are removed only if it returned true, which happens only on   *)
(* the y or Y key; when it returned false (n, N, Esc, q or Enter) no       *)
(* worktree of the batch is removed.                                       *)
YesKeys == {Key(Char("y"), FALSE), Key(Char("Y"), FALSE)}

NoKeys ==
    {Key(Char("n"), FALSE), Key(Char("N"), FALSE), Key(KeyCode_Esc, FALSE),
     Key(Char("q"), FALSE), Key(KeyCode_Enter, FALSE)}

C4_RemovalOnlyAfterYes ==
    prompted =>
        /\ (removed # << >> \/ pc = "delete") => answer = Some(Ok(TRUE))
        /\ answer = Some(Ok(TRUE)) => unwrap(event) \in YesKeys
        /\ answer = Some(Ok(FALSE)) =>
              /\ unwrap(event) \in NoKeys
              /\ removed = << >>
              /\ pc \in {"after_confirm", "exit"}
              /\ outcome \in {"running", "cancelled"}

\* the whole batch was removed after an affirmative answer
C4_Witness ==
    /\ prompted
    /\ answer = Some(Ok(TRUE))
    /\ outcome = "deleted"
    /\ Len(removed) = MaxItems

(* C5: every selected worktree that the status probe made after the        *)
(* session reports as having uncommitted work or an unpushed commit        *)
(* (commits ahead > 0) is named in the confirmation prompt, which is shown *)
(* before any removal, and is never removed unless the prompt was answered *)
(* affirmatively.                                                          *)
AtRisk(probe) ==
    /\ ~is_none(probe)
    /\ \/ unwrap(probe).has_uncommitted
       \/ has_local_changes(unwrap(probe))
       \/ unwrap(probe).commits_ahead > 0

Attempted == {removed[k].index : k \in DOMAIN removed}

C5_AtRiskNeedsPrompt ==
    \A i \in DOMAIN fresh :
        AtRisk(fresh[i]) =>
            /\ i \in SeqRange(with_changes)
            /\ pc \in {"delete", "exit"} /\ outcome # "error" => prompted
            /\ i \in Attempted => answer = Some(Ok(TRUE))

(* C6: once enable_raw_mode has succeeded in a selection session or in     *)
(* confirm, raw mode is disabled exactly once on every way out of that     *)
(* function, so it is off whenever control is back in the caller, and the  *)
(* session and the prompt never hold raw mode at the same time.            *)
SelectionPcs == {"sel_setup", "sel_draw", "sel_poll", "sel_drain"}

ConfirmPcs == {"confirm_flush", "confirm_poll"}

C6_RawModeReleased ==
    /\ Cardinality(term.guards) <= 1
    /\ term.raw_mode <=> term.guards # {}
    /\ term.enables = term.disables + Cardinality(term.guards)
    /\ "selection" \in term.guards <=> pc \in SelectionPcs
    /\ "confirm" \in term.guards <=> pc \in ConfirmPcs
    /\ pc \notin (SelectionPcs \cup ConfirmPcs) =>
          /\ ~term.raw_mode
          /\ term.disables = term.enables

\* both the session and the prompt acquired and released raw mode
C6_Witness ==
    /\ pc = "exit"
    /\ term.enables = 2
    /\ term.disables = 2
    /\ ~term.raw_mode

\* the step in which the render loop breaks and the session returns Ok
SessionReturnsOk ==
    /\ pc = "sel_poll"
    /\ pc' = "after_selection"
    /\ ret' # Some(Err)

Returned == unwrap(ret).val

(* C7: in multi-select, Enter with at least one row selected returns       *)
(* exactly the indices i with selected[i], each once, in strictly          *)
(* ascending order and all below the item count; with every row selected   *)
(* it returns 0..N-1.                                                      *)
StrictlyAscending(q) == \A k \in 1..(Len(q) - 1) : q[k] < q[k + 1]

EnterKey == Key(KeyCode_Enter, FALSE)

C7_Step ==
    ( /\ variant = "multi"
      /\ SessionReturnsOk
      /\ event' = Some(EnterKey)
      /\ \E i \in DOMAIN Items : TheApp.selected[i] )
    => /\ ~is_none(Returned')
       /\ LET chosen == unwrap(Returned')
          IN /\ StrictlyAscending(chosen)
             /\ SeqRange(chosen) = {i \in DOMAIN Items : TheApp.selected[i]}
             /\ SeqRange(chosen) \subseteq 0..(VecLen(Items) - 1)
             /\ (\A i \in DOMAIN Items : TheApp.selected[i]) =>
                   chosen = [k \in 1..VecLen(Items) |-> k - 1]

C7_ConfirmedIndices == [][C7_Step]_vars

\* Enter with all rows of a full list selected
C7_Witness ==
    /\ variant = "multi"
    /\ pc = "after_selection"
    /\ event = Some(EnterKey)
    /\ ret = Some(Ok(Some([k \in 1..MaxItems |-> k - 1])))

(* C8: in multi-select, Enter while no row is selected returns None, the   *)
(* value Esc, q and Ctrl+C return; a Some result is never an empty list.   *)
CancelKeys ==
    {Key(KeyCode_Esc, FALSE), Key(Char("q"), FALSE), Key(Char("c"), TRUE)}

C8_Step ==
    (variant = "multi" /\ SessionReturnsOk) =>
        /\ (event' = Some(EnterKey) /\ \A i \in DOMAIN Items : ~TheApp.selected[i])
           => Returned' = None
        /\ event' \in {Some(k) : k \in CancelKeys} => Returned' = None
        /\ ~is_none(Returned') => unwrap(Returned') # << >>

C8_EmptyConfirmIsCancel == [][C8_Step]_vars

\* Enter was pressed with nothing selected
C8_Witness ==
    /\ variant = "multi"
    /\ pc = "after_selection"
    /\ event = Some(EnterKey)
    /\ ret = Some(Ok(None))

(* C9: in single-select on a non-empty list, Enter returns Some(c) where c *)
(* is the cursor position at that moment, 0 <= c < item count, so the      *)
(* caller's lookup worktrees[c] is in bounds; Esc, q and Ctrl+C return     *)
(* None.                                                                   *)
C9_Step ==
    /\ (variant = "single" /\ SessionReturnsOk) =>
          /\ event' = Some(EnterKey) =>
                /\ Returned' = TheApp.list_state
                /\ ~is_none(Returned')
                /\ unwrap(Returned') \in 0..(VecLen(Items) - 1)
                /\ unwrap(Returned') \in DOMAIN worktrees
          /\ event' \in {Some(k) : k \in CancelKeys} => Returned' = None
    /\ outcome' # "panic"

C9_SingleResult == [][C9_Step]_vars

\* Enter on the last row of a full list
C9_Witness ==
    /\ variant = "single"
    /\ event = Some(EnterKey)
    /\ ret = Some(Ok(Some(MaxItems - 1)))
    /\ outcome = "container"

(* C10: I/O failures aside, in both variants the render loop ends only at  *)
(* the first key event that maps to confirm (Enter) or cancel (Esc, q,     *)
(* Ctrl+C); other keys, non-key events, poll timeouts, an empty or closed  *)
(* update channel and pending counters at 0 never end it.                  *)
LoopPcs == {"sel_draw", "sel_poll", "sel_drain"}

TerminalKeys == {EnterKey} \cup CancelKeys

ChannelClosed == chan = << >> /\ \A i \in Indices : tasks[i] = "done"

\* leaving the loop is a break on a terminal key read in that step, or an
\* I/O error
C10_ExitStep ==
    (pc \in LoopPcs /\ pc' \notin LoopPcs) =>
        \/ /\ pc = "sel_poll"
           /\ event' \in {Some(k) : k \in TerminalKeys}
        \/ /\ ret' = Some(Err)
           /\ event' = event

\* in the loop, exactly the terminal keys break out of it
C10_KeysInLoop ==
    (pc \in LoopPcs) =>
        \A e \in SelectionEvents :
            e \in TerminalKeys <=>
                /\ e.kind = "Key"
                /\ ~is_none(KeyMatch(variant, TheApp, e.code, e.ctrl).brk)

C10_LoopEndsOnlyOnKey == [][C10_ExitStep]_vars /\ []C10_KeysInLoop

\* the loop is still polling although the channel is closed and nothing is pending
C10_Witness ==
    /\ pc = "sel_poll"
    /\ ChannelClosed
    /\ TheApp.pending_status = 0
    /\ TheApp.pending_summaries = 0

(* C11: for each index the render loop applies that index's updates in the *)
(* order its task sent them, Status, then SummaryStarted, then Summary,    *)
(* under every interleaving of the tasks; it never applies SummaryStarted  *)
(* or Summary for an index before that index's Status.                     *)
UpdateOrder == << "Status", "SummaryStarted", "Summary" >>

IsPrefix(p, q) == Len(p) <= Len(q) /\ \A k \in 1..Len(p) : p[k] = q[k]

\* the kinds of the updates for index i that wait in the channel, in order
KindsInChan(i) ==
    LET mine == SelectSeq(chan, LAMBDA u : u.index = i)
    IN [k \in 1..Len(mine) |-> mine[k].type]

\* the kinds of the updates for index i that the session has applied, as
\* its item shows them
KindsApplied(i) ==
    IF ~AppLive \/ i \notin DOMAIN Items THEN << >>
    ELSE LET item == Items[i]
         IN CASE item.summary_state.tag = "Done" -> UpdateOrder
              [] item.summary_state = Summarizing -> << "Status", "SummaryStarted" >>
              [] OTHER -> IF is_none(item.status) THEN << >> ELSE << "Status" >>

C11_Order ==
    rx_alive => \A i \in Indices : IsPrefix(KindsApplied(i) \o KindsInChan(i), UpdateOrder)

\* the step in which the drain receives the update at the head of the channel
Receives == pc = "sel_drain" /\ chan # << >> /\ chan' = Tail(chan)

C11_Step ==
    Receives =>
        LET u == Head(chan)
        IN /\ u.index \in DOMAIN Items
           /\ Applies(u)
           /\ LET item == Items[u.index]
              IN CASE u.type = "Status" ->
                        is_none(item.status) /\ item.summary_state = SummaryNone
                   [] u.type = "SummaryStarted" ->
                        ~is_none(item.status) /\ item.summary_state = Queued
                   [] u.type = "Summary" ->
                        ~is_none(item.status) /\ item.summary_state = Summarizing

C11_PerIndexOrder == [][C11_Step]_vars /\ []C11_Order

\* every row of a full list went through Status, SummaryStarted and Summary
C11_Witness ==
    /\ AppLive
    /\ DOMAIN Items = 0..(MaxItems - 1)
    /\ \A i \in DOMAIN Items : Items[i].summary_state.tag = "Done"

(* C12: per session each index has exactly one background task, which      *)
(* sends exactly one Status update and then at most one SummaryStarted and *)
(* at most one Summary; no index gets two Status updates and no update is  *)
(* sent for an index that was not in the item list at construction.        *)
\* how many updates of a kind for index i were sent: waiting or applied
SentCount(i, kind) ==
    Cardinality({k \in DOMAIN chan : chan[k].index = i /\ chan[k].type = kind})
    + (IF kind \in SeqRange(KindsApplied(i)) THEN 1 ELSE 0)

TaskRank(position) ==
    CASE position = "probe" -> 0
      [] position = "send_started" -> 1
      [] position = "summarize" -> 2
      [] position = "done" -> 3

C12_Inv ==
    /\ DOMAIN tasks = DOMAIN worktrees
    /\ AppLive => DOMAIN Items = DOMAIN tasks
    /\ \A k \in DOMAIN chan : chan[k].index \in DOMAIN worktrees
    /\ rx_alive =>
          \A i \in Indices :
              /\ SentCount(i, "Status") = (IF tasks[i] = "probe" THEN 0 ELSE 1)
              /\ SentCount(i, "SummaryStarted") <= 1
              /\ SentCount(i, "Summary") <= 1
              /\ tasks[i] \in {"probe", "send_started"} =>
                    SentCount(i, "SummaryStarted") = 0 /\ SentCount(i, "Summary") = 0
              /\ tasks[i] = "summarize" =>
                    SentCount(i, "SummaryStarted") = 1 /\ SentCount(i, "Summary") = 0

\* a task only moves forward, and the channel grows by one update at a
\* time, sent by the task of the update's index at the matching position
C12_Step ==
    /\ \A i \in Indices : TaskRank(tasks'[i]) >= TaskRank(tasks[i])
    /\ Len(chan') > Len(chan) =>
          /\ chan' = Append(chan, chan'[Len(chan')])
          /\ LET u == chan'[Len(chan')]
             IN /\ u.index \in Indices
                /\ tasks'[u.index] # tasks[u.index]
                /\ tasks[u.index] = (CASE u.type = "Status" -> "probe"
                                       [] u.type = "SummaryStarted" -> "send_started"
                                       [] u.type = "Summary" -> "summarize")

C12_OneTaskPerIndex == [][C12_Step]_vars /\ []C12_Inv

\* a task has sent all three updates before the session received any
C12_Witness ==
    /\ rx_alive
    /\ \A i \in Indices : tasks[i] = "done"
    /\ KindsInChan(0) = UpdateOrder

(* C13: every SummaryStarted sent for an index is followed by exactly one  *)
(* Summary for the same index; hence every item that reaches Summarizing   *)
(* reaches Done and pending_summaries returns to 0 once the task's updates *)
(* have been applied.                                                      *)
\* the task of index i has finished and the session has applied all it sent
Quiescent(i) ==
    /\ AppLive
    /\ rx_alive
    /\ tasks[i] = "done"
    /\ KindsInChan(i) = << >>

C13_Step ==
    \A i \in Indices :
        (rx_alive /\ tasks[i] = "summarize" /\ tasks'[i] = "done") =>
            /\ Len(chan') = Len(chan) + 1
            /\ chan'[Len(chan')].type = "Summary"
            /\ chan'[Len(chan')].index = i

C13_Resolved ==
    /\ \A i \in Indices :
          (Quiescent(i) /\ SentCount(i, "SummaryStarted") = 1) =>
              /\ SentCount(i, "Summary") = 1
              /\ Items[i].summary_state.tag = "Done"
    /\ (AppLive /\ \A i \in Indices : Quiescent(i)) => TheApp.pending_summaries = 0

C13_StartedThenSummary == [][C13_Step]_vars /\ []C13_Resolved

(* C14: a task sends SummaryStarted / Summary for an index only if the     *)
(* status it sent for that index has has_uncommitted true and is_orphaned  *)
(* false; for every other index the summary stays None for the whole       *)
(* session.  While every status sent is clean, pending_summaries is 0, and *)
(* pending_status is the item count less the Status updates applied: N at  *)
(* the start, 0 after N of them.                                           *)
\* the status the task of index i has sent, waiting or applied
StatusSent(i) ==
    IF AppLive /\ ~is_none(Items[i].status) THEN Items[i].status
    ELSE LET at == {k \in DOMAIN chan : chan[k].index = i /\ chan[k].type = "Status"}
         IN IF at = {} THEN None ELSE Some(chan[CHOOSE k \in at : TRUE].status)

Summarizable(status) ==
    /\ ~is_none(status)
    /\ unwrap(status).has_uncommitted
    /\ ~unwrap(status).is_orphaned

C14_SummaryOnlyWhenDirty ==
    rx_alive =>
        /\ \A i \in Indices :
              /\ ( \/ tasks[i] \in {"send_started", "summarize"}
                   \/ SentCount(i, "SummaryStarted") > 0
                   \/ SentCount(i, "Summary") > 0 ) => Summarizable(StatusSent(i))
              /\ (tasks[i] # "probe" /\ ~Summarizable(StatusSent(i))) =>
                    /\ tasks[i] = "done"
                    /\ AppLive => Items[i].summary_state = SummaryNone
        /\ AppLive =>
              /\ TheApp.pending_status =
                    VecLen(Items) - Cardinality({i \in Indices : "Status" \in SeqRange(KindsApplied(i))})
              /\ (\A i \in Indices : ~Summarizable(StatusSent(i))) =>
                    TheApp.pending_summaries = 0

\* a full list of clean units, every Status applied
C14_Witness ==
    /\ AppLive
    /\ rx_alive
    /\ DOMAIN Items = 0..(MaxItems - 1)
    /\ \A i \in DOMAIN Items : Items[i].status = Some(DefaultStatus)
    /\ TheApp.pending_status = 0
    /\ TheApp.pending_summaries = 0

(* C15: if the summary probe of a unit returns no text, no summary line is *)
(* shown for its row: once the task has finished and its updates are       *)
(* applied, a row without a summary text shows no Queued or Summarizing    *)
(* line in any later frame.                                                *)
C15_NoTextNoLine ==
    \A i \in Indices :
        (Quiescent(i) /\ Items[i].summary_state.tag # "Done") =>
            Frame(variant, TheApp).rows[i].summary = None

(* C16: an update of any kind whose index is not below the item count is   *)
(* dropped: items, cursor, selection flags, pending_status and             *)
(* pending_summaries are all unchanged.                                    *)
C16_OutOfRangeDropped ==
    AppLive =>
        \A update \in ModelUpdates :
            ~InRange(update) => ApplyUpdate(variant, TheApp, update) = TheApp

\* a list shorter than the largest index, with a summary in progress
C16_Witness ==
    /\ pc = "model"
    /\ variant = "multi"
    /\ VecLen(Items) = MaxItems - 1
    /\ \E update \in ModelUpdates : ~InRange(update)
    /\ \E i \in DOMAIN Items : InProgress(Items[i].summary_state)
    /\ TheApp.pending_summaries > 0

(* C17: after any sequence of move_up, move_down, selection operations and *)
(* updates the cursor is absent if the list is empty and otherwise lies in *)
(* [0, len-1]; move_up at 0 and move_down at len-1 leave it unchanged,     *)
(* elsewhere they change it by exactly one, and on an empty list both do   *)
(* nothing.                                                                *)
AfterKey(code) == KeyMatch(variant, TheApp, code, FALSE).app

C17_CursorClamped ==
    AppLive =>
        LET len == VecLen(Items)
            cursor == TheApp.list_state
        IN IF len = 0
           THEN /\ is_none(cursor)
                /\ AfterKey(KeyCode_Up) = TheApp
                /\ AfterKey(KeyCode_Down) = TheApp
           ELSE /\ ~is_none(cursor)
                /\ unwrap(cursor) \in 0..(len - 1)
                /\ AfterKey(KeyCode_Up).list_state =
                      Some(IF unwrap(cursor) = 0 THEN 0 ELSE unwrap(cursor) - 1)
                /\ AfterKey(KeyCode_Down).list_state =
                      Some(IF unwrap(cursor) = len - 1 THEN len - 1
                           ELSE unwrap(cursor) + 1)

\* the cursor was moved to the last row of a full list
C17_Witness ==
    /\ pc = "model"
    /\ variant = "multi"
    /\ VecLen(Items) = MaxItems
    /\ TheApp.list_state = Some(MaxItems - 1)
    /\ \E i \in DOMAIN Items : TheApp.selected[i]

(* C18: every update that is in the channel when the drain begins is       *)
(* applied before the next draw, and a draw never happens between the      *)
(* start and the end of applying an update or in the middle of a drain:    *)
(* the drain is left only with the channel empty, towards the draw, and    *)
(* inside it the model changes by whole updates taken from the head.       *)
C18_Step ==
    /\ (pc = "sel_drain" /\ pc' # "sel_drain") =>
          /\ chan = << >>
          /\ pc' = "sel_draw"
          /\ app' = app
    /\ (pc = "sel_drain" /\ pc' = "sel_drain") =>
          /\ Receives \/ IsPrefix(chan, chan')
          /\ app' # app => Receives /\ Applies(Head(chan))
    /\ (AppLive /\ AppLive' /\ TheApp'.frame # TheApp.frame) =>
          /\ pc = "sel_draw"
          /\ pc' = "sel_poll"
          /\ app' = Some(Tick(variant, TheApp))

C18_DrainBeforeDraw == [][C18_Step]_vars

\* back at the draw with every Status of a full list applied and nothing waiting
C18_Witness ==
    /\ pc = "sel_draw"
    /\ AppLive
    /\ TheApp.frame = 1
    /\ chan = << >>
    /\ VecLen(Items) = MaxItems
    /\ TheApp.pending_status = 0

(* C19: background tasks change no part of the selection model: the only  *)
(* effect of a task step is appending an update to the channel, and every  *)
(* change to items, cursor, selection flags and pending counters is made   *)
(* by the render loop, one whole update or key at a time.                  *)
C19_Step ==
    /\ tasks' # tasks =>
          /\ app' = app
          /\ chan' = chan \/ (Len(chan') = Len(chan) + 1 /\ IsPrefix(chan, chan'))
          /\ UNCHANGED << variant, worktrees, pc, event, ret, rx_alive, term,
                          cleanupVars, outcome >>
    /\ (AppLive /\ AppLive' /\ app' # app) =>
          /\ tasks' = tasks
          /\ \/ Receives /\ Applies(Head(chan))
             \/ /\ pc = "sel_poll"
                /\ chan' = chan
                /\ \E e \in SelectionEvents :
                     /\ e.kind = "Key"
                     /\ app' = Some(KeyMatch(variant, TheApp, e.code, e.ctrl).app)
             \/ /\ pc = "sel_draw"
                /\ chan' = chan
                /\ app' = Some(Tick(variant, TheApp))

C19_TasksOnlySend == [][C19_Step]_vars

\* every task has finished, all updates are applied and the user has selected rows
C19_Witness ==
    /\ AppLive
    /\ variant = "multi"
    /\ \A i \in Indices : tasks[i] = "done"
    /\ chan = << >>
    /\ \E i \in DOMAIN Items : Items[i].summary_state.tag = "Done"
    /\ \E i \in DOMAIN Items : TheApp.selected[i]

(* C20: the glyph/colour class of a row whose status is known depends on   *)
(* (is_orphaned, has_uncommitted, has_unpushed) only, in the priority      *)
(* order orphaned > uncommitted-and-unpushed > uncommitted-only >          *)
(* unpushed-only > clean, so an orphaned status gets the orphaned class    *)
(* whatever the other two flags are; the selector's row renderer and the   *)
(* status command give the same class to every combination of the flags.   *)
SeverityClass(orph, uncom, unpushed) ==
    CASE orph -> << "cross", "Red" >>
      [] ~orph /\ uncom /\ unpushed -> << "dot", "Red" >>
      [] ~orph /\ uncom /\ ~unpushed -> << "dot", "Yellow" >>
      [] ~orph /\ ~uncom /\ unpushed -> << "dot", "Blue" >>
      [] ~orph /\ ~uncom /\ ~unpushed -> << "dot", "Green" >>

C20_SeverityClass ==
    \A k \in DOMAIN printed :
        LET s == results[k].status
            item == [WorktreeItem(results[k].branch) EXCEPT !.status = Some(s)]
            row == build_worktree_list_item(item, FALSE, TRUE, FALSE, 0)
        IN /\ printed[k].icon = SeverityClass(s.is_orphaned, s.has_uncommitted, s.has_unpushed)
           /\ row.icon = printed[k].icon
           /\ s.is_orphaned <=> printed[k].icon[1] = "cross"
           /\ \A j \in DOMAIN printed :
                 ( /\ results[j].status.is_orphaned = s.is_orphaned
                   /\ results[j].status.has_uncommitted = s.has_uncommitted
                   /\ results[j].status.has_unpushed = s.has_unpushed )
                 => printed[j].icon = printed[k].icon

\* a full listing with an orphaned row whose other two flags are set
C20_Witness ==
    /\ outcome = "listed"
    /\ Len(printed) = MaxItems
    /\ \E k \in DOMAIN printed :
          /\ results[k].status = StatusOfFlags(TRUE, TRUE, TRUE)
          /\ printed[k].icon = << "cross", "Red" >>
    /\ \E k \in DOMAIN printed : results[k].status = UntrackedStatus


(* C21: in both variants, for any sequence of applied updates,             *)
(* pending_summaries is the number of items whose summary state is Queued  *)
(* or Summarizing; it goes down by exactly 1 in the step in which such an  *)
(* item's summary resolves to Done, and by nothing in any other step.      *)
C21_Inv ==
    AppLive => TheApp.pending_summaries =
                   Cardinality({i \in DOMAIN Items : InProgress(Items[i].summary_state)})

\* the items whose summary is in progress before the step and Done after it
Resolved ==
    {i \in DOMAIN Items : /\ InProgress(Items[i].summary_state)
                          /\ TheApp'.items[i].summary_state.tag = "Done"}

C21_Step ==
    (AppLive /\ AppLive' /\ TheApp'.pending_summaries < TheApp.pending_summaries) =>
        /\ Cardinality(Resolved) = 1
        /\ TheApp'.pending_summaries = TheApp.pending_summaries - 1

C21_PendingSummariesCount == [][C21_Step]_vars /\ []C21_Inv

(* C22: once removal starts in interactive cleanup, removal is attempted   *)
(* exactly once for every confirmed worktree, in ascending index order,    *)
(* also after an earlier removal failed, and the reported count is the     *)
(* number of removals that succeeded.                                      *)
Succeeded == {k \in DOMAIN removed : removed[k].ok}

C22_RemoveEachOnce ==
    /\ removed # << >> => pc = "delete" \/ outcome = "deleted"
    /\ (pc = "delete" \/ outcome = "deleted") =>
          /\ StrictlyAscending(Confirmed)
          /\ Len(removed) <= Len(Confirmed)
          /\ \A k \in DOMAIN removed : removed[k].index = Confirmed[k]
          /\ deleted = Cardinality(Succeeded)
          /\ outcome = "deleted" => Len(removed) = Len(Confirmed)

\* the first removal failed, the second was attempted and succeeded
C22_Witness ==
    /\ outcome = "deleted"
    /\ Len(removed) = 2
    /\ ~removed[1].ok
    /\ removed[2].ok
    /\ deleted = 1

(* C23: when the selection session returns None (the user cancelled, or   *)
(* confirmed an empty multi-selection), the command returns success        *)
(* without showing the confirmation prompt, removing any worktree or       *)
(* starting a container.                                                   *)
C23_NoneEndsCommand ==
    ret = Some(Ok(None)) =>
        /\ pc \in {"after_selection", "exit"}
        /\ pc = "exit" <=> outcome = "cancelled"
        /\ pc = "after_selection" <=> outcome = "running"
        /\ ~prompted
        /\ is_none(answer)
        /\ fresh = EmptyVec
        /\ removed = << >>
        /\ deleted = 0

\* continue returned Ok(()) after the user cancelled the single selection
C23_Witness ==
    /\ variant = "single"
    /\ ret = Some(Ok(None))
    /\ event \in {Some(k) : k \in CancelKeys}
    /\ outcome = "cancelled"

(* C24: a failure to enter raw mode, to set up the terminal, to draw, or  *)
(* to poll or read an event ends the session with an error, neither a      *)
(* selection nor None; after it interactive cleanup shows no prompt and    *)
(* removes nothing.                                                        *)
C24_FailureIsError ==
    /\ (pc = "after_selection" /\ is_none(event)) => ret = Some(Err)
    /\ ret = Some(Err) =>
          /\ pc \in {"after_selection", "exit"}
          /\ pc = "exit" <=> outcome = "error"
          /\ ~term.raw_mode
          /\ ~prompted
          /\ is_none(answer)
          /\ fresh = EmptyVec
          /\ removed = << >>
          /\ deleted = 0

\* cleanup ended with the session's error, which came after raw mode was on
C24_Witness ==
    /\ variant = "multi"
    /\ ret = Some(Err)
    /\ is_none(event)
    /\ term.enables = 1
    /\ outcome = "error"

(* C25: at the confirmation prompt every key other than y or Y (Enter, n, *)
(* N, Esc, q, and any other key, Ctrl+C included) ends the prompt with the *)
(* answer no, so that nothing of the batch is removed; the prompt is never *)
(* still open after it has read a key.                                     *)
C25_EveryKeyAnswers ==
    /\ pc = "confirm_poll" => is_none(event) \/ unwrap(event).kind # "Key"
    /\ (answer \in {Some(Ok(b)) : b \in BOOLEAN} /\ unwrap(event) \notin YesKeys) =>
          /\ answer = Some(Ok(FALSE))
          /\ removed = << >>

(* C26: for a list of one unit whose Status has has_uncommitted = true    *)
(* and is_orphaned = false, the updates Status, SummaryStarted, Summary(t) *)
(* take (summary state, pending_summaries) through (Queued, 1),            *)
(* (Summarizing, 1), (Done(t), 0); pending_status is 0 from the Status     *)
(* update on and the text t is stored unchanged.                           *)
C26_Step ==
    \A update \in ModelUpdates :
        ( /\ AppLive
          /\ DOMAIN Items = {0}
          /\ update.index = 0
          /\ Applies(update) )
        => LET before == Items[0]
               after == TheApp'.items[0]
           IN /\ ( /\ update.type = "Status"
                   /\ NeedsSummary(update.status)
                   /\ is_none(before.status)
                   /\ before.summary_state = SummaryNone
                   /\ TheApp.pending_summaries = 0 )
                 => /\ after.status = Some(update.status)
                    /\ after.summary_state = Queued
                    /\ TheApp'.pending_summaries = 1
                    /\ TheApp'.pending_status = 0
              /\ ( /\ update.type = "SummaryStarted"
                   /\ before.summary_state = Queued
                   /\ TheApp.pending_summaries = 1
                   /\ TheApp.pending_status = 0 )
                 => /\ after.summary_state = Summarizing
                    /\ after.status = before.status
                    /\ TheApp'.pending_summaries = 1
                    /\ TheApp'.pending_status = 0
              /\ ( /\ update.type = "Summary"
                   /\ before.summary_state = Summarizing
                   /\ TheApp.pending_summaries = 1
                   /\ TheApp.pending_status = 0 )
                 => /\ after.summary_state = Done(update.summary)
                    /\ after.status = before.status
                    /\ TheApp'.pending_summaries = 0
                    /\ TheApp'.pending_status = 0

C26_StatusStartedSummary == [][C26_Step]_vars

\* the end of the scenario: the one unit is dirty and its summary is Done("t2")
C26_Witness ==
    /\ pc = "model"
    /\ DOMAIN Items = {0}
    /\ Items[0].status = Some(DirtyStatus)
    /\ Items[0].summary_state = Done("t2")
    /\ TheApp.pending_summaries = 0
    /\ TheApp.pending_status = 0

(* C27: whenever a confirmed multi-selection contains a unit whose status  *)
(* has has_uncommitted = true, the confirmation prompt is shown (and       *)
(* answered yes) before any removal proceeds.  The unit's status is the    *)
(* one the probe after the session returned or, when that probe failed,    *)
(* the one its background task obtained: a task is past its Status send    *)
(* and not yet done only if that status needed a summary.                  *)
LastStatusUncommitted(i) ==
    IF i \in DOMAIN fresh /\ ~is_none(fresh[i])
    THEN unwrap(fresh[i]).has_uncommitted
    ELSE tasks[i] \in {"send_started", "summarize"}

C27_UncommittedNeedsPrompt ==
    (variant = "multi" /\ (pc = "delete" \/ removed # << >>)) =>
        \A i \in SeqRange(Confirmed) :
            LastStatusUncommitted(i) => prompted /\ answer = Some(Ok(TRUE))

(* C28: with an empty list the single selection never yields an index:    *)
(* Enter returns None and the session ends at the first confirm or cancel  *)
(* key; and continue, when there are no worktrees, ends before the session *)
(* and raw mode are started.  The first part is shown on the session's     *)
(* state over an empty list, which tick, every update and every key that   *)
(* stays in the loop map to such a state again.                            *)
EmptySingleApps ==
    {[SingleSelectApp_new(EmptyVec) EXCEPT !.frame = f] : f \in 0..(FrameWrap - 1)}

EmptyListSession ==
    \A a \in EmptySingleApps :
        /\ SingleSelectApp_selected(a) = None
        /\ SingleSelectApp_tick(a) \in EmptySingleApps
        /\ \A update \in ModelUpdates : SingleSelectApply(a, update) \in EmptySingleApps
        /\ \A e \in SelectionEvents :
              e.kind = "Key" =>
                  LET m == SingleSelectMatch(a, e.code, e.ctrl)
                  IN IF e \in TerminalKeys
                     THEN m.brk = Some(None)
                     ELSE is_none(m.brk) /\ m.app \in EmptySingleApps

C28_EmptyListNoIndex ==
    /\ EmptyListSession
    /\ (variant = "single" /\ DOMAIN worktrees = {}) =>
          /\ pc \in {"start", "exit"}
          /\ pc = "exit" <=> outcome = "error"
          /\ is_none(app)
          /\ is_none(ret)
          /\ term = InitTerm
          /\ chan = << >>

\* continue has ended on the empty list without entering raw mode
C28_Witness ==
    /\ variant = "single"
    /\ DOMAIN worktrees = {}
    /\ pc = "exit"
    /\ outcome = "error"
    /\ term.enables = 0

(* C29: in single-select the value returned on a cancel key (Esc, q,       *)
(* Ctrl+C) differs from the value returned on Enter over an empty list     *)
(* (confirmed with nothing), so that the caller can tell them apart.       *)
C29_CancelDistinct ==
    (pc = "model" /\ variant = "single" /\ AppLive /\ DOMAIN Items = {}) =>
        \A k \in CancelKeys :
            KeyMatch(variant, TheApp, k.code, k.ctrl).brk
                # KeyMatch(variant, TheApp, KeyCode_Enter, FALSE).brk

(* C30: when the user confirms or cancels while probes are still running, *)
(* the value returned is the one the key's arm yields on the model state   *)
(* at that key press, whatever is still in the channel; after the session  *)
(* has ended no update is applied and the result does not change; a task   *)
(* that has not finished is never blocked (its next step can be taken,     *)
(* its send is discarded) and only moves forward, to completion.           *)
TaskCanStep(i) ==
    ENABLED (TaskStatus(i) \/ TaskSummaryStarted(i) \/ TaskSummary(i))

C30_Ended ==
    ~is_none(ret) =>
        /\ ~rx_alive
        /\ is_none(app)
        /\ chan = << >>
        /\ \A i \in Indices : tasks[i] # "done" => TaskCanStep(i)

C30_Step ==
    /\ SessionReturnsOk =>
          /\ Returned' = unwrap(KeyMatch(variant, TheApp, unwrap(event').code,
                                         unwrap(event').ctrl).brk)
          /\ chan' = << >>
          /\ tasks' = tasks
    /\ ~is_none(ret) =>
          /\ ret' = ret
          /\ \A i \in Indices : TaskRank(tasks'[i]) >= TaskRank(tasks[i])
          /\ tasks' # tasks => UNCHANGED << pc, app, ret, chan, cleanupVars, outcome >>

C30_AbandonedProbes == [][C30_Step]_vars /\ []C30_Ended

\* cleanup has finished on a confirmed selection while a summary was still
\* being computed
C30_Witness ==
    /\ variant = "multi"
    /\ ret = Some(Ok(Some(<< 0 >>)))
    /\ pc = "exit"
    /\ tasks[0] = "summarize"

(* C31: extract_repo_name returns the last component of the url (the text *)
(* after the last '/', or after the last ':' when the url has no '/', with *)
(* trailing '/' ignored) with one trailing ".git" removed, and None when   *)
(* that name is empty; the five urls of the test all give "repo".          *)
HasChar(str, ch) == \E k \in 1..Len(str) : str[k] = ch

LastComponent(str) ==
    LET sep == IF HasChar(str, "/") THEN "/" ELSE ":"
        at == {k \in 1..Len(str) : str[k] = sep}
    IN IF at = {} THEN str
       ELSE SubSeq(str, (CHOOSE k \in at : \A j \in at : j <= k) + 1, Len(str))

ExpectedRepoName(u) ==
    LET last == LastComponent(trim_end_matches(u, "/"))
        name == IF Len(last) >= 4 /\ SubSeq(last, Len(last) - 3, Len(last)) = DotGit
                THEN SubSeq(last, 1, Len(last) - 4)
                ELSE last
    IN IF name = << >> THEN None ELSE Some(name)

C31_LastComponent ==
    pc = "clone_named" =>
        /\ ret = Some(ExpectedRepoName(url))
        /\ url \in TestUrls => ret = Some(Some(<< "r", "e", "p", "o" >>))

(* C32: in each loop iteration the steps run in the order advance the     *)
(* frame, drain the channel, poll the keyboard, redraw: the poll of an     *)
(* iteration is reached from that iteration's drain, so the updates        *)
(* available at the start of the iteration are applied before its key is   *)
(* handled, and the first draw comes after the first drain.                *)
C32_Step == (pc' = "sel_poll" /\ pc # "sel_poll") => pc = "sel_drain"

C32_DrainBeforePoll == [][C32_Step]_vars

(* C33: a Status update applied to an in-range item stores the status as  *)
(* the item's status; if the status has has_uncommitted true and           *)
(* is_orphaned false and the item's summary is None, the summary becomes   *)
(* Queued and pending_summaries grows by exactly 1; in every other case    *)
(* the summary state and pending_summaries are unchanged.                  *)
C33_Step ==
    \A update \in ModelUpdates :
        ( /\ AppLive
          /\ update.type = "Status"
          /\ InRange(update)
          /\ Applies(update) )
        => LET before == Items[update.index]
               after == TheApp'.items[update.index]
           IN /\ after.status = Some(update.status)
              /\ IF NeedsSummary(update.status) /\ before.summary_state = SummaryNone
                 THEN /\ after.summary_state = Queued
                      /\ TheApp'.pending_summaries = TheApp.pending_summaries + 1
                 ELSE /\ after.summary_state = before.summary_state
                      /\ TheApp'.pending_summaries = TheApp.pending_summaries

C33_StatusQueuesOnce == [][C33_Step]_vars

\* a dirty Status update has queued the summary of the one multi-select item
C33_Witness ==
    /\ pc = "model"
    /\ variant = "multi"
    /\ DOMAIN Items = {0}
    /\ Items[0].status = Some(DirtyStatus)
    /\ Items[0].summary_state = Queued
    /\ TheApp.pending_summaries = 1
    /\ TheApp.pending_status = 0

(* C34: automatic cleanup removes a worktree exactly when its status is   *)
(* orphaned, or it is safe to delete (no uncommitted changes, not          *)
(* orphaned) and is synced with the remote or unused; a worktree that is   *)
(* not orphaned and has uncommitted changes is never removed.              *)
ShouldRemove(seen) ==
    \/ seen.status.is_orphaned
    \/ /\ ~seen.status.has_uncommitted
       /\ ~seen.status.is_orphaned
       /\ seen.synced = Ok(TRUE) \/ seen.unused = Ok(TRUE)

FailedProbes == {i \in DOMAIN fresh : is_none(fresh[i])}

C35_FailedProbeIsClean ==
    /\ \A i \in FailedProbes : i \notin SeqRange(with_changes)
    /\ (fresh # EmptyVec /\ FailedProbes = DOMAIN fresh) =>
          /\ ~prompted
          /\ pc \in {"delete", "exit"}
    /\ outcome = "deleted" => FailedProbes \subseteq Attempted

\* the only confirmed worktree could not be probed and was removed unasked
C35_Witness ==
    /\ outcome = "deleted"
    /\ DOMAIN fresh = {0}
    /\ is_none(fresh[0])
    /\ ~prompted
    /\ removed = << [index |-> 0, ok |-> TRUE] >>

(* C36: each operation changes only its own part of the model: an update  *)
(* with index i changes only item i's status and summary and the pending   *)
(* counters (never a branch, the length or order of the list, another      *)
(* item, the cursor or a flag); move_up and move_down change only the      *)
(* cursor; toggle_current only the flag at the cursor; select_all and      *)
(* deselect_all only flags; tick only the frame counter.  Checked for      *)
(* every operation on every reachable state of the model.                  *)
SameExcept(a, b, fields) ==
    /\ DOMAIN a = DOMAIN b
    /\ \A f \in DOMAIN a \ fields : a[f] = b[f]

UpdateFrame(a, update) ==
    LET b == ApplyUpdate(variant, a, update)
    IN /\ SameExcept(a, b, {"items", "pending_status", "pending_summaries"})
       /\ DOMAIN b.items = DOMAIN a.items
       /\ \A j \in DOMAIN a.items :
             /\ b.items[j].branch = a.items[j].branch
             /\ j # update.index => b.items[j] = a.items[j]

CursorFrame(a) ==
    IF variant = "single"
    THEN /\ SameExcept(a, SingleSelectApp_move_up(a), {"list_state"})
         /\ SameExcept(a, SingleSelectApp_move_down(a), {"list_state"})
    ELSE /\ SameExcept(a, MultiSelectApp_move_up(a), {"list_state"})
         /\ SameExcept(a, MultiSelectApp_move_down(a), {"list_state"})

FlagFrame(a) ==
    variant = "multi" =>
        /\ SameExcept(a, MultiSelectApp_toggle_current(a), {"selected"})
        /\ DOMAIN MultiSelectApp_toggle_current(a).selected = DOMAIN a.selected
        /\ \A j \in DOMAIN a.selected :
              Some(j) # a.list_state =>
                  MultiSelectApp_toggle_current(a).selected[j] = a.selected[j]
        /\ SameExcept(a, MultiSelectApp_select_all(a), {"selected"})
        /\ SameExcept(a, MultiSelectApp_deselect_all(a), {"selected"})

C36_FrameEffects ==
    (pc = "model" /\ AppLive) =>
        /\ \A update \in ModelUpdates : UpdateFrame(TheApp, update)
        /\ CursorFrame(TheApp)
        /\ FlagFrame(TheApp)
        /\ SameExcept(TheApp, Tick(variant, TheApp), {"frame"})

\* a state in which every kind of operation has something to change: the
\* cursor is on the second row, which is flagged, and the first has a status
C36_Witness ==
    /\ pc = "model"
    /\ variant = "multi"
    /\ DOMAIN Items = {0, 1}
    /\ TheApp.list_state = Some(1)
    /\ TheApp.selected[1]
    /\ ~TheApp.selected[0]
    /\ ~is_none(Items[0].status)
    /\ is_none(Items[1].status)

(* C38: in multi-select the flag vector always has one flag per item, all *)
(* false at construction, and the cursor is below its length, so that      *)
(* toggle_current never indexes out of bounds; toggle_current twice        *)
(* without a cursor move restores the flags; select_all and deselect_all   *)
(* are idempotent and override all earlier toggles; on an empty list all   *)
(* three change nothing.                                                   *)
C38_FlagVector ==
    (pc = "model" /\ variant = "multi" /\ AppLive) =>
        LET a == TheApp
            all == MultiSelectApp_select_all(a)
            none == MultiSelectApp_deselect_all(a)
        IN /\ DOMAIN a.selected = DOMAIN a.items
           /\ \A i \in DOMAIN a.items : ~MultiSelectApp_new(a.items).selected[i]
           /\ ~is_none(a.list_state) => unwrap(a.list_state) \in DOMAIN a.selected
           /\ MultiSelectApp_toggle_current(MultiSelectApp_toggle_current(a)) = a
           /\ ~is_none(a.list_state) =>
                 MultiSelectApp_toggle_current(a).selected[unwrap(a.list_state)]
                     = ~a.selected[unwrap(a.list_state)]
           /\ MultiSelectApp_select_all(all) = all
           /\ MultiSelectApp_deselect_all(none) = none
           /\ \A i \in DOMAIN a.items : all.selected[i] /\ ~none.selected[i]
           /\ DOMAIN a.items = {} =>
                 /\ MultiSelectApp_toggle_current(a) = a
                 /\ all = a
                 /\ none = a

\* both rows are flagged while the cursor is on the second one
C38_Witness ==
    /\ pc = "model"
    /\ variant = "multi"
    /\ DOMAIN Items = {0, 1}
    /\ TheApp.selected[0]
    /\ TheApp.selected[1]
    /\ TheApp.list_state = Some(1)

(* C37: with fair scheduling of the background tasks and the render loop, *)
(* unless the session ends (a terminal key, or an error), eventually every *)
(* item has a status and pending_status is 0, and this stays so; a probe   *)
(* that failed is reported with the default status.                        *)
AllStatusKnown ==
    /\ AppLive
    /\ TheApp.pending_status = 0
    /\ \A i \in DOMAIN Items : ~is_none(Items[i].status)

SessionEnded == ~is_none(ret) \/ pc = "exit"

C37_StatusEventuallyKnown == <>[]AllStatusKnown \/ <>SessionEnded

\* both items have a status, one of them the default status
C37_Witness ==
    /\ pc \in LoopPcs
    /\ AllStatusKnown
    /\ DOMAIN Items = {0, 1}
    /\ Items[0].status = Some(DefaultStatus)
    /\ Items[1].status = Some(DirtyStatus)
    /\ chan = << >>

C39_Returned ==
    pc = "docker_returned" =>
        /\ ~docker.spinner_running
        /\ docker.spinner_thread = "exited"

C39_Step == pc = "docker_returned" => docker' = docker

(* C39: run_container_with_output stops and joins its spinner thread on   *)
(* every return path, also when starting the docker process fails: once    *)
(* the function has returned the spinner thread has ended and never        *)
(* redraws the display again.                                              *)
C39_SpinnerJoined == [][C39_Step]_vars /\ []C39_Returned

=============================================================================
